---- MODULE Spec2Model ----
(***************************************************************************)
(* Model of the agent loop of app/agent.py (Agent.run and its stages).     *)
(*                                                                         *)
(* Python values are represented as follows.                               *)
(*   - A string is a sequence of chunks.  Text the code inspects character *)
(*     by character (the goal, brands, keywords, numbers, the generated    *)
(*     SQL payload) is written one character per chunk; a fixed literal    *)
(*     the code only concatenates is one chunk.  "" is << >>.              *)
(*   - A dict is a function whose domain is its set of keys; {} is << >>.  *)
(*   - A list of steps is a function over 0..n-1 (Python indices).         *)
(*   - None is the value None below; a missing dict key is a missing       *)
(*     domain element.                                                     *)
(***************************************************************************)
EXTENDS Integers, Sequences, FiniteSets, TLC

(* ------------------------------------------------------------------ *)
(* Bounds of the model                                                 *)
(* ------------------------------------------------------------------ *)
MaxRows == 2
MaxItems == 1
\* largest max_steps an Agent of the model is constructed with
MaxStepsLimit == 6
\* largest number of run calls made on one Agent
MaxTurns == 2

(* ------------------------------------------------------------------ *)
(* Characters and string helpers                                       *)
(* ------------------------------------------------------------------ *)
Uppers == <<"A", "B", "C", "D", "E", "F", "G", "H", "I", "J", "K", "L", "M",
            "N", "O", "P", "Q", "R", "S", "T", "U", "V", "W", "X", "Y", "Z">>
Lowers == <<"a", "b", "c", "d", "e", "f", "g", "h", "i", "j", "k", "l", "m",
            "n", "o", "p", "q", "r", "s", "t", "u", "v", "w", "x", "y", "z">>
Digits == <<"0", "1", "2", "3", "4", "5", "6", "7", "8", "9">>

None == << "<None>" >>

IsUpper(c) == \E i \in 1..26 : Uppers[i] = c
IsLower(c) == \E i \in 1..26 : Lowers[i] = c
IsDigit(c) == \E i \in 1..10 : Digits[i] = c
IsLetter(c) == IsUpper(c) \/ IsLower(c)
IsWordChar(c) == IsLetter(c) \/ IsDigit(c) \/ c = "_"
IsSpace(c) == c \in {" ", "\n", "\t"}

LowerChar(c) == IF IsUpper(c) THEN Lowers[CHOOSE i \in 1..26 : Uppers[i] = c] ELSE c
UpperChar(c) == IF IsLower(c) THEN Uppers[CHOOSE i \in 1..26 : Lowers[i] = c] ELSE c
DigitVal(c) == (CHOOSE i \in 1..10 : Digits[i] = c) - 1

\* str.lower()
Lower(s) == [i \in 1..Len(s) |-> LowerChar(s[i])]

\* str.title(): a letter is upper-cased after a non-letter, lower-cased otherwise
Title(s) ==
    [i \in 1..Len(s) |->
        IF i = 1 \/ ~IsLetter(s[i - 1]) THEN UpperChar(s[i]) ELSE LowerChar(s[i])]

\* `word in text`
Contains(text, word) ==
    \E i \in 0..(Len(text) - Len(word)) : SubSeq(text, i + 1, i + Len(word)) = word

\* text[i:].startswith(word), 1-based i
StartsAt(text, i, word) ==
    /\ i + Len(word) - 1 <= Len(text)
    /\ SubSeq(text, i, i + Len(word) - 1) = word

\* length of the run of digits that starts at position i
RECURSIVE DigitRun(_, _)
DigitRun(text, i) ==
    IF i > Len(text) \/ ~IsDigit(text[i]) THEN 0 ELSE 1 + DigitRun(text, i + 1)

\* length of the run of whitespace that starts at position i
RECURSIVE SpaceRun(_, _)
SpaceRun(text, i) ==
    IF i > Len(text) \/ ~IsSpace(text[i]) THEN 0 ELSE 1 + SpaceRun(text, i + 1)

\* int(digits)
RECURSIVE ToInt(_)
ToInt(ds) ==
    IF ds = << >> THEN 0
    ELSE 10 * ToInt(SubSeq(ds, 1, Len(ds) - 1)) + DigitVal(ds[Len(ds)])

\* str(n) for n >= 0
RECURSIVE Str(_)
Str(n) ==
    IF n < 10 THEN << Digits[n + 1] >>
    ELSE Str(n \div 10) \o << Digits[(n % 10) + 1] >>

\* str.strip()
RECURSIVE LStrip(_)
LStrip(s) == IF s # << >> /\ IsSpace(s[1]) THEN LStrip(Tail(s)) ELSE s
RECURSIVE RStrip(_)
RStrip(s) ==
    IF s # << >> /\ IsSpace(s[Len(s)]) THEN RStrip(SubSeq(s, 1, Len(s) - 1)) ELSE s
Strip(s) == RStrip(LStrip(s))

\* re: \b\d{lo,hi}\b matches at position i (the match is the whole digit word)
BoundedNumberAt(text, i, lo, hi) ==
    /\ i \in 1..Len(text)
    /\ IsDigit(text[i])
    /\ (i = 1 \/ ~IsWordChar(text[i - 1]))
    /\ LET n == DigitRun(text, i)
       IN  /\ n >= lo
           /\ n <= hi
           /\ (i + n > Len(text) \/ ~IsWordChar(text[i + n]))

\* truthiness of a string-or-None value
Truthy(s) == s # << >> /\ s # None

(* ------------------------------------------------------------------ *)
(* dict helpers                                                        *)
(* ------------------------------------------------------------------ *)
EmptyDict == << >>
Has(d, k) == k \in DOMAIN d
Get(d, k, default) == IF k \in DOMAIN d THEN d[k] ELSE default
Put(d, k, v) == [x \in (DOMAIN d) \cup {k} |-> IF x = k THEN v ELSE d[x]]
Pop(d, k) == [x \in (DOMAIN d) \ {k} |-> d[x]]

(* ------------------------------------------------------------------ *)
(* Keyword tables (app/agent.py)                                       *)
(* ------------------------------------------------------------------ *)
FAQ_KEYWORDS ==
    { <<"r", "e", "t", "u", "r", "n">>,
      <<"r", "e", "f", "u", "n", "d">>,
      <<"s", "h", "i", "p", "p", "i", "n", "g">>,
      <<"p", "a", "y", "m", "e", "n", "t">>,
      <<"w", "a", "r", "r", "a", "n", "t", "y">>,
      <<"d", "e", "l", "i", "v", "e", "r", "y">>,
      <<"e", "x", "c", "h", "a", "n", "g", "e">> }

SQL_KEYWORDS ==
    { <<"p", "r", "i", "c", "e">>,
      <<"c", "o", "s", "t">>,
      <<"c", "h", "e", "a", "p">>,
      <<"d", "i", "s", "c", "o", "u", "n", "t">>,
      <<"r", "a", "t", "i", "n", "g">>,
      <<"b", "r", "a", "n", "d">>,
      <<"s", "i", "z", "e">>,
      <<"a", "v", "a", "i", "l", "a", "b", "i", "l", "i", "t", "y">>,
      <<"s", "t", "o", "c", "k">>,
      <<"s", "h", "o", "w">>,
      <<"l", "i", "s", "t">>,
      <<"b", "u", "y">>,
      <<"p", "r", "o", "d", "u", "c", "t">>,
      <<"s", "h", "o", "e">>,
      <<"s", "h", "o", "e", "s">>,
      <<"l", "a", "p", "t", "o", "p">>,
      <<"p", "h", "o", "n", "e", "s">> }

BRAND_HINTS ==
    { <<"n", "i", "k", "e">>,
      <<"p", "u", "m", "a">>,
      <<"a", "d", "i", "d", "a", "s">>,
      <<"r", "e", "e", "b", "o", "k">>,
      <<"a", "p", "p", "l", "e">>,
      <<"s", "a", "m", "s", "u", "n", "g">> }

\* default of Agent.__init__'s max_steps
DefaultMaxSteps == 5


(* ------------------------------------------------------------------ *)
(* Inputs of a turn                                                    *)
(* ------------------------------------------------------------------ *)
ToolNames == {"faq_search", "faq_answer", "sql_generate", "sql_run", "verbalize"}

\* "Return policy?"
Goal1 == <<"R", "e", "t", "u", "r", "n", " ", "p", "o", "l", "i", "c", "y", "?">>
\* "Need Puma shoes under 3000."
Goal2 == <<"N", "e", "e", "d", " ", "P", "u", "m", "a", " ", "s", "h", "o", "e", "s", " ", "u", "n", "d", "e", "r", " ", "3", "0", "0", "0", ".">>
\* "show return policy and cheap shoes"
Goal3 == <<"s", "h", "o", "w", " ", "r", "e", "t", "u", "r", "n", " ", "p", "o", "l", "i", "c", "y", " ", "a", "n", "d", " ", "c", "h", "e", "a", "p", " ", "s", "h", "o", "e", "s">>
\* "cheap shoes"
Goal4 == <<"c", "h", "e", "a", "p", " ", "s", "h", "o", "e", "s">>
\* "hello"
Goal5 == <<"h", "e", "l", "l", "o">>
\* "List Adidas shoes"
Goal6 == <<"L", "i", "s", "t", " ", "A", "d", "i", "d", "a", "s", " ", "s", "h", "o", "e", "s">>
\* "shoes below 2500"
Goal7 == <<"s", "h", "o", "e", "s", " ", "b", "e", "l", "o", "w", " ", "2", "5", "0", "0">>
\* "Nike or Puma list 123456"
Goal8 == <<"N", "i", "k", "e", " ", "o", "r", " ", "P", "u", "m", "a", " ", "l", "i", "s", "t", " ", "1", "2", "3", "4", "5", "6">>

Goals == {Goal1, Goal2, Goal3, Goal4, Goal5, Goal6, Goal7, Goal8}

Nike == <<"N", "i", "k", "e">>

\* preference snapshots handed to run(); a key whose value is None is a missing key
Memories ==
    { EmptyDict,
      [brand |-> Nike],
      [price_ceiling |-> 5000],
      [brand |-> Nike, price_ceiling |-> 5000],
      [brand |-> << >>, price_ceiling |-> 0] }

\* registries: every tool registered, or one of them missing
Registries == {ToolNames} \cup {ToolNames \ {t} : t \in ToolNames}

(* ------------------------------------------------------------------ *)
(* Plan builder                                                        *)
(* ------------------------------------------------------------------ *)
_mentions(text, keywords) == \E word \in keywords : Contains(text, word)

MemBrand(memory) == Has(memory, "brand") /\ memory["brand"] # << >>
MemPrice(memory) == Has(memory, "price_ceiling") /\ memory["price_ceiling"] # 0

\* the prerequisite check appending budget before brand
_missing_constraints_BudgetFirst(lowered_goal, memory) ==
    LET brand_known == (\E hint \in BRAND_HINTS : Contains(lowered_goal, hint))
                       \/ MemBrand(memory)
        price_known == (\E i \in 1..Len(lowered_goal) :
                            BoundedNumberAt(lowered_goal, i, 3, 5))
                       \/ MemPrice(memory)
    IN  (IF price_known THEN << >> ELSE << "budget ceiling" >>)
        \o (IF brand_known THEN << >> ELSE << "preferred brand" >>)

_missing_constraints(lowered_goal, memory) ==
    LET brand_known == (\E hint \in BRAND_HINTS : Contains(lowered_goal, hint))
                       \/ MemBrand(memory)
        price_known == (\E i \in 1..Len(lowered_goal) :
                            BoundedNumberAt(lowered_goal, i, 3, 5))
                       \/ MemPrice(memory)
    IN  (IF brand_known THEN << >> ELSE << "preferred brand" >>)
        \o (IF price_known THEN << >> ELSE << "budget ceiling" >>)

PriceWords ==
    { <<"u", "n", "d", "e", "r">>,
      <<"b", "e", "l", "o", "w">>,
      <<"l", "e", "s", "s", " ", "t", "h", "a", "n">> }

\* re: (?:under|below|less than)\s*(\d{3,6}) matches starting at position p
PriceMatchAt(text, p) ==
    \E w \in PriceWords :
        /\ StartsAt(text, p, w)
        /\ DigitRun(text, p + Len(w) + SpaceRun(text, p + Len(w))) >= 3

Min(S) == CHOOSE x \in S : \A y \in S : x <= y

\* the price part of _guess_preferences: a dict with or without price_ceiling
GuessPrice(text, memory) ==
    IF MemPrice(memory) THEN EmptyDict
    ELSE LET ps == {p \in 1..Len(text) : PriceMatchAt(text, p)}
             ns == {i \in 1..Len(text) : BoundedNumberAt(text, i, 3, 6)}
         IN  IF ps # {}
             THEN LET p == Min(ps)
                      w == CHOOSE w \in PriceWords : StartsAt(text, p, w)
                      d == p + Len(w) + SpaceRun(text, p + Len(w))
                      n == IF DigitRun(text, d) > 6 THEN 6 ELSE DigitRun(text, d)
                  IN  [price_ceiling |-> ToInt(SubSeq(text, d, d + n - 1))]
             ELSE IF ns # {}
             THEN LET i == Min(ns)
                  IN  [price_ceiling |->
                          ToInt(SubSeq(text, i, i + DigitRun(text, i) - 1))]
             ELSE EmptyDict

\* the brand scan that does not look at the snapshot
GuessBrands_IgnoreMemory(text, memory) ==
    {b \in BRAND_HINTS : Contains(text, b)}

\* the brands the loop over the set BRAND_HINTS may stop at (set order is
\* not fixed by the language)
GuessBrands(text, memory) ==
    IF MemBrand(memory) THEN {} ELSE {b \in BRAND_HINTS : Contains(text, b)}

\* every value _guess_preferences may return
_guess_preferences(text, memory) ==
    IF GuessBrands(text, memory) = {}
    THEN { GuessPrice(text, memory) }
    ELSE { Put(GuessPrice(text, memory), "brand", Title(b)) :
               b \in GuessBrands(text, memory) }

\* classification testing the data-query keywords first
PlanType_SqlFirst(user_goal) ==
    LET lowered == Lower(user_goal)
    IN  IF _mentions(lowered, SQL_KEYWORDS) THEN "sql"
        ELSE "faq"

\* lines 118-123
PlanType(user_goal) ==
    LET lowered == Lower(user_goal)
    IN  IF _mentions(lowered, FAQ_KEYWORDS) THEN "faq"
        ELSE IF _mentions(lowered, SQL_KEYWORDS) THEN "sql"
        ELSE "faq"

Steps(names) == [i \in 0..(Len(names) - 1) |-> [tool |-> names[i + 1], status |-> "pending"]]

\* _make_initial_plan, given the value _guess_preferences returned
_make_initial_plan(user_goal, memory, preference_updates) ==
    LET lowered == Lower(user_goal)
        plan_type == PlanType(user_goal)
    IN  [ type |-> plan_type,
          steps |-> IF plan_type = "faq"
                    THEN Steps(<<"faq_search", "faq_answer">>)
                    ELSE Steps(<<"sql_generate", "sql_run", "verbalize">>),
          needs_clarification |->
                    IF plan_type = "faq" THEN << >>
                    ELSE _missing_constraints(lowered, memory),
          data |-> IF preference_updates # EmptyDict
                   THEN [memory_updates |-> preference_updates]
                   ELSE EmptyDict,
          retries |-> 0 ]

(* ------------------------------------------------------------------ *)
(* State                                                               *)
(* ------------------------------------------------------------------ *)
VARIABLES
    pc,           \* position in Agent.run
    user_goal,    \* argument of run
    memory,       \* argument of run (preference snapshot)
    tools,        \* names registered in self.tools
    max_steps,    \* self.max_steps
    plan,         \* state.plan
    last_result,  \* state.last_result ({} stands for None as well)
    step_index,   \* state.step_index (-1 for None)
    action,       \* the action chosen in this iteration
    iter,         \* iterations of the for loop already finished
    trace,        \* trace records
    tool_order,   \* tool names in execution order
    calls,        \* what each invocation did, one entry per executed action
    final,        \* value returned by run ({} before it returns)
    turn,         \* number of the run call on this Agent, from 1
    earlier,      \* how the previous run call on this Agent went
    session_state,\* st.session_state: agent_memory, agent_pending_clarification
    asks,         \* number of ask calls made in the session
    route,        \* what the router did with the query of this ask call
    talked,       \* what talk returned to this ask call
    response,     \* what the last ask call returned
    collections,  \* the Chroma client: collection name -> its documents
    csv,          \* the rows of the FAQ CSV file
    ing_pc,       \* position in ingest_faq_data
    ingests,      \* number of ingest_faq_data calls made
    ing_failed,   \* some ingest_faq_data call raised
    sq_pc,        \* position in sql_run (tools/sql_tool.py) or sql_chain (sql.py)
    stmt,         \* the SQL statement at hand
    db,           \* the product table of the database
    executed,     \* the statements executed against the database
    sq_out,       \* what sql_run or sql_chain returned or raised
    verbalised    \* the contexts handed to data_comprehension by sql_chain

vars == << pc, user_goal, memory, tools, max_steps, plan, last_result, step_index,
           action, iter, trace, tool_order, calls, final, turn, earlier,
           session_state, asks, route, talked, response,
           collections, csv, ing_pc, ingests, ing_failed,
           sq_pc, stmt, db, executed, sq_out, verbalised >>

\* the state of FAQ ingestion (faq.py) and of the SQL functions (sql_tool.py,
\* sql.py), which the agent loop and ask do not touch
faq_vars == << collections, csv, ing_pc, ingests, ing_failed >>
sql_vars == << sq_pc, stmt, db, executed, sq_out, verbalised >>

\* what lies outside one run call
outer == << turn, earlier, session_state, asks, route, talked, response,
            faq_vars, sql_vars >>

\* the state of the agent loop and of ask
agent_vars == << pc, user_goal, memory, tools, max_steps, plan, last_result,
                 step_index, action, iter, trace, tool_order, calls, final,
                 turn, earlier, session_state, asks, route, talked, response >>

NoEarlier == [retried |-> FALSE, error |-> FALSE]
NoRoute == "<none>"
NoResponse == << "<no response>" >>
NoAction == [tool |-> "None", args |-> EmptyDict, index |-> -1]
NoPlan == [type |-> "None", steps |-> << >>, needs_clarification |-> << >>,
           data |-> EmptyDict, retries |-> 0]

\* no ingestion and no SQL function is under way
IngestOff ==
    /\ collections = EmptyDict
    /\ csv = << >>
    /\ ing_pc = "off"
    /\ ingests = 0
    /\ ing_failed = FALSE
SqlOff ==
    /\ sq_pc = "off"
    /\ stmt = << >>
    /\ db = << >>
    /\ executed = << >>
    /\ sq_out = EmptyDict
    /\ verbalised = << >>

Init ==
    /\ pc = "start"
    /\ user_goal \in Goals
    /\ memory \in Memories
    /\ tools \in Registries
    /\ max_steps \in DefaultMaxSteps..MaxStepsLimit
    /\ plan = NoPlan
    /\ last_result = EmptyDict
    /\ step_index = -1
    /\ action = NoAction
    /\ iter = 0
    /\ trace = << >>
    /\ tool_order = << >>
    /\ calls = << >>
    /\ final = EmptyDict
    /\ turn = 1
    /\ earlier = NoEarlier
    /\ session_state = EmptyDict
    /\ asks = 0
    /\ route = NoRoute
    /\ talked = << >>
    /\ response = NoResponse
    /\ IngestOff
    /\ SqlOff

\* the plan stage that also writes the staged updates into the snapshot
Plan_WritesSnapshot ==
    /\ pc = "start"
    /\ \E updates \in _guess_preferences(Lower(user_goal), memory) :
           /\ plan' = _make_initial_plan(user_goal, memory, updates)
           /\ memory' = [k \in DOMAIN memory \cup DOMAIN updates |->
                            IF k \in DOMAIN updates THEN updates[k] ELSE memory[k]]
    /\ pc' = IF plan'.needs_clarification # << >> THEN "clarify"
             ELSE IF max_steps > 0 THEN "choose" ELSE "finalize"
    /\ UNCHANGED << outer, user_goal, tools, max_steps, last_result, step_index,
                    action, iter, trace, tool_order, calls, final >>

\* the plan stage that enters the loop whatever the plan's clarification needs
Plan_NoShortCircuit ==
    /\ pc = "start"
    /\ \E updates \in _guess_preferences(Lower(user_goal), memory) :
           plan' = _make_initial_plan(user_goal, memory, updates)
    /\ pc' = IF max_steps > 0 THEN "choose" ELSE "finalize"
    /\ UNCHANGED << outer, user_goal, memory, tools, max_steps, last_result, step_index, action,
                    iter, trace, tool_order, calls, final >>

\* run, lines 63-68: build the plan and branch on needs_clarification
Plan ==
    /\ pc = "start"
    /\ \E updates \in _guess_preferences(Lower(user_goal), memory) :
           plan' = _make_initial_plan(user_goal, memory, updates)
    /\ pc' = IF plan'.needs_clarification # << >> THEN "clarify"
             ELSE IF max_steps > 0 THEN "choose" ELSE "finalize"
    /\ UNCHANGED << outer, user_goal, memory, tools, max_steps, last_result, step_index, action,
                    iter, trace, tool_order, calls, final >>

(* ------------------------------------------------------------------ *)
(* Action selector                                                     *)
(* ------------------------------------------------------------------ *)
RECURSIVE Join(_, _)
Join(pieces, sep) ==
    IF pieces = << >> THEN << >>
    ELSE IF Len(pieces) = 1 THEN pieces[1]
    ELSE pieces[1] \o sep \o Join(Tail(pieces), sep)

RefineInstruction ==
    << " (If no products match, relax filters slightly and broaden the search.)" >>

_apply_memory_to_question(goal, mem) ==
    LET brand_piece ==
            IF MemBrand(mem) /\ ~Contains(Lower(goal), Lower(mem["brand"]))
            THEN << << "(Prefer brand " >> \o mem["brand"] \o << ")" >> >>
            ELSE << >>
        price_piece ==
            IF MemPrice(mem) /\ ~Contains(goal, Str(mem["price_ceiling"]))
            THEN << << "(Keep price under " >> \o Str(mem["price_ceiling"]) \o << ")" >> >>
            ELSE << >>
    IN  Join(<< goal >> \o brand_piece \o price_piece, << " " >>)

EmptyRows == [type |-> "list", items |-> << >>]

\* faq_answer args built with the context read from the wrong key
FaqAnswerArgs_WrongKey(goal, p) ==
    [question |-> goal, context |-> Get(p.data, "items", << >>)]

\* lines 170-172
FaqAnswerArgs(goal, p) ==
    [question |-> goal, context |-> Get(p.data, "faq_items", << >>)]

\* verbalize args built with the rows read from the wrong key
VerbalizeArgs_WrongKey(goal, p) ==
    [question |-> goal, data |-> Get(p.data, "data", EmptyRows)]

\* lines 183-185
VerbalizeArgs(goal, p) ==
    [question |-> goal, data |-> Get(p.data, "rows", EmptyRows)]

\* sql_generate args that append the refine instruction only when the plan
\* has used up its retry
SqlGenerateArgs_HintAfterBudget(goal, mem, p) ==
    [question |-> _apply_memory_to_question(goal, mem)
                  \o (IF p.retries > 1 THEN RefineInstruction ELSE << >>)]

\* lines 173-177
SqlGenerateArgs(goal, mem, p) ==
    [question |-> _apply_memory_to_question(goal, mem)
                  \o (IF Get(p.data, "refine_hint", FALSE)
                      THEN RefineInstruction ELSE << >>)]

\* the args of the action for a step of the given tool
ActionArgs(tool_name, goal, mem, p) ==
    CASE tool_name = "faq_search" -> [query |-> goal, k |-> 3]
      [] tool_name = "faq_answer" -> FaqAnswerArgs(goal, p)
      [] tool_name = "sql_generate" -> SqlGenerateArgs(goal, mem, p)
      [] tool_name = "sql_run" -> [sql |-> Get(p.data, "sql_query", None)]
      [] tool_name = "verbalize" -> VerbalizeArgs(goal, p)
      [] OTHER -> EmptyDict

NumSteps(p) == Cardinality(DOMAIN p.steps)

\* the selector loop skipping only the steps that are in progress
RECURSIVE ChooseFrom_SkipInProgressOnly(_, _)
ChooseFrom_SkipInProgressOnly(p, idx) ==
    IF idx >= NumSteps(p) THEN -1
    ELSE IF p.steps[idx].status = "in_progress"
         THEN ChooseFrom_SkipInProgressOnly(p, idx + 1)
    ELSE IF p.steps[idx].tool \notin ToolNames
         THEN ChooseFrom_SkipInProgressOnly(p, idx + 1)
    ELSE IF p.steps[idx].tool = "sql_run" /\ ~Truthy(Get(p.data, "sql_query", None))
         THEN -1
    ELSE idx

\* the loop of _choose_action from step idx on: the index of the step it
\* selects, or -1 when it returns None
RECURSIVE ChooseFrom(_, _)
ChooseFrom(p, idx) ==
    IF idx >= NumSteps(p) THEN -1
    ELSE IF p.steps[idx].status # "pending" THEN ChooseFrom(p, idx + 1)
    ELSE IF p.steps[idx].tool \notin ToolNames THEN ChooseFrom(p, idx + 1)
    ELSE IF p.steps[idx].tool = "sql_run" /\ ~Truthy(Get(p.data, "sql_query", None))
         THEN -1
    ELSE idx

\* the selector that takes the last pending step instead of the first
_choose_action_LastPending(goal, mem, p) ==
    LET pending == {i \in 0..(NumSteps(p) - 1) : p.steps[i].status = "pending"}
        idx == IF pending = {} THEN -1
               ELSE CHOOSE i \in pending : \A k \in pending : k <= i
    IN  IF idx = -1 THEN NoAction
        ELSE [tool |-> p.steps[idx].tool,
              args |-> ActionArgs(p.steps[idx].tool, goal, mem, p),
              index |-> idx]

\* _choose_action: the action returned (NoAction for None)
_choose_action(goal, mem, p) ==
    LET idx == ChooseFrom(p, 0)
    IN  IF idx = -1 THEN NoAction
        ELSE [tool |-> p.steps[idx].tool,
              args |-> ActionArgs(p.steps[idx].tool, goal, mem, p),
              index |-> idx]

SetStatus(p, idx, status) ==
    [p EXCEPT !.steps = [@ EXCEPT ![idx] = [@ EXCEPT !.status = status]]]

(* ------------------------------------------------------------------ *)
(* Tool invoker                                                        *)
(* ------------------------------------------------------------------ *)
Messages == { << >>, << "E1" >> }
ReturnedError == << "E2" >>
Texts == { << >>, << "T1" >>, << "T1", "\n", "T2" >> }

Items(n) == [i \in 1..n |-> i]
RowsList(n) == [type |-> "list", items |-> [i \in 1..n |-> i]]
NoneRows == [type |-> "NoneType", items |-> << >>]

\* "<SQL>SELECT 1</SQL>"
Payload1 == <<"<", "S", "Q", "L", ">", "S", "E", "L", "E", "C", "T", " ", "1", "<", "/", "S", "Q", "L", ">">>
\* "x <sql> Q1 </Sql><SQL>Q2</SQL>"
Payload2 == <<"x", " ", "<", "s", "q", "l", ">", " ", "Q", "1", " ", "<", "/", "S", "q", "l", ">", "<", "S", "Q", "L", ">", "Q", "2", "<", "/", "S", "Q", "L", ">">>
\* "SELECT 1"
Payload3 == <<"S", "E", "L", "E", "C", "T", " ", "1">>
\* "<SQL> </SQL>"
Payload4 == <<"<", "S", "Q", "L", ">", " ", "<", "/", "S", "Q", "L", ">">>

Payloads == {Payload1, Payload2, Payload3, Payload4, None}

\* the mappings a tool function may return
Returns(tool_name) ==
    CASE tool_name = "faq_search" ->
            {[items |-> Items(n)] : n \in 0..MaxItems}
            \cup {EmptyDict, [error |-> ReturnedError]}
      [] tool_name = "faq_answer" ->
            {[text |-> t] : t \in Texts} \cup {[error |-> ReturnedError]}
      [] tool_name = "sql_generate" ->
            {[sql_wrapped |-> w] : w \in Payloads}
            \cup {EmptyDict, [error |-> ReturnedError]}
      [] tool_name = "sql_run" ->
            {[rows |-> RowsList(n), columns |-> << "title" >>] : n \in 0..MaxRows}
            \cup {EmptyDict, [rows |-> NoneRows],
                  [error |-> ReturnedError],
                  [error |-> ReturnedError, rows |-> EmptyRows]}
      [] tool_name = "verbalize" ->
            {[text |-> t] : t \in Texts} \cup {[error |-> ReturnedError]}
      [] OTHER -> {EmptyDict}

\* what calling spec.fn(args) may do: return a mapping or raise
Outcomes(tool_name) ==
    {[kind |-> "return", value |-> v] : v \in Returns(tool_name)}
    \cup {[kind |-> "raise", value |-> [error |-> m]] : m \in Messages}

NotRegistered(tool_name) == << "Tool '", tool_name, "' is not registered." >>

\* the invoker answering a registry miss with an empty result
_execute_MissReturnsNothing(registry, act, o) ==
    IF act.tool \notin registry THEN EmptyDict
    ELSE IF o.kind = "raise" THEN [error |-> o.value.error]
    ELSE o.value

\* _execute: the result for the action when the tool function behaves as o
_execute(registry, act, o) ==
    IF act.tool \notin registry THEN [error |-> NotRegistered(act.tool)]
    ELSE IF o.kind = "raise" THEN [error |-> o.value.error]
    ELSE o.value

(* ------------------------------------------------------------------ *)
(* Reflector                                                           *)
(* ------------------------------------------------------------------ *)
OpenMarker == <<"<", "s", "q", "l", ">">>
CloseMarker == <<"<", "/", "s", "q", "l", ">">>

\* re.findall(r"<SQL>(.*?)</SQL>", payload, IGNORECASE | DOTALL), first match
\* stripped; None when there is no match.  payload is a string.
_extract_sql(payload) ==
    LET low == Lower(payload)
        opens == {i \in 1..Len(low) : StartsAt(low, i, OpenMarker)}
    IN  IF opens = {} THEN None
        ELSE LET i == Min(opens)
                 closes == {j \in (i + Len(OpenMarker))..Len(low) :
                                StartsAt(low, j, CloseMarker)}
             IN  IF closes = {} THEN None
                 ELSE Strip(SubSeq(payload, i + Len(OpenMarker), Min(closes) - 1))

SqlStepTools == {"sql_generate", "sql_run", "verbalize"}

\* the reset discarding every artifact of plan data
_reset_sql_steps_ClearData(p) ==
    [p EXCEPT
        !.steps = [i \in DOMAIN p.steps |->
                      IF p.steps[i].tool \in SqlStepTools
                      THEN [p.steps[i] EXCEPT !.status = "pending"]
                      ELSE p.steps[i]],
        !.data = EmptyDict]

\* the reset that leaves the generated query of the first attempt in place
_reset_sql_steps_KeepQuery(p) ==
    [p EXCEPT
        !.steps = [i \in DOMAIN p.steps |->
                      IF p.steps[i].tool \in SqlStepTools
                      THEN [p.steps[i] EXCEPT !.status = "pending"]
                      ELSE p.steps[i]],
        !.data = Pop(Pop(p.data, "rows"), "verbalization")]

_reset_sql_steps(p) ==
    [p EXCEPT
        !.steps = [i \in DOMAIN p.steps |->
                      IF p.steps[i].tool \in SqlStepTools
                      THEN [p.steps[i] EXCEPT !.status = "pending"]
                      ELSE p.steps[i]],
        !.data = Pop(Pop(Pop(p.data, "sql_query"), "rows"), "verbalization")]

\* the completion mark with a bounds test that leaves out index 0
MarkCompleted_SkipFirst(p, act) ==
    IF act.index > 0 /\ act.index < NumSteps(p)
    THEN SetStatus(p, act.index, "completed")
    ELSE p

\* lines 218-221: mark the executed step completed
MarkCompleted(p, act) ==
    IF act.index >= 0 /\ act.index < NumSteps(p)
    THEN SetStatus(p, act.index, "completed")
    ELSE p

\* re.findall raises TypeError when the payload is not a string
ReflectRaises(act, result) ==
    /\ ~Has(result, "error")
    /\ act.tool = "sql_generate"
    /\ Get(result, "sql_wrapped", << >>) = None

\* the refinement policy with a retry budget of two
ReflectSqlRun_TwoRetries(p, result) ==
    LET rows == Get(result, "rows", EmptyRows)
        p1 == [p EXCEPT !.data = Put(Put(p.data, "rows", rows),
                                     "columns", Get(result, "columns", << >>))]
    IN  IF rows.type = "list" /\ rows.items = << >>
        THEN IF p1.retries < 2
             THEN _reset_sql_steps(
                      [p1 EXCEPT !.retries = p1.retries + 1,
                                 !.data = Put(p1.data, "refine_hint", TRUE)])
             ELSE [p1 EXCEPT !.data = Put(p1.data, "no_matches", TRUE)]
        ELSE p1

\* the refinement policy that spends the retry without resetting the steps
ReflectSqlRun_NoReset(p, result) ==
    LET rows == Get(result, "rows", EmptyRows)
        p1 == [p EXCEPT !.data = Put(Put(p.data, "rows", rows),
                                     "columns", Get(result, "columns", << >>))]
    IN  IF rows.type = "list" /\ rows.items = << >>
        THEN IF p1.retries < 1
             THEN [p1 EXCEPT !.retries = p1.retries + 1,
                             !.data = Put(p1.data, "refine_hint", TRUE)]
             ELSE [p1 EXCEPT !.data = Put(p1.data, "no_matches", TRUE)]
        ELSE p1

\* the folding of a sql_run result without any policy for empty rows
ReflectSqlRun_NoPolicy(p, result) ==
    [p EXCEPT !.data = Put(Put(p.data, "rows", Get(result, "rows", EmptyRows)),
                           "columns", Get(result, "columns", << >>))]

\* lines 241-252: fold a sql_run result and apply the refinement policy
ReflectSqlRun(p, result) ==
    LET rows == Get(result, "rows", EmptyRows)
        p1 == [p EXCEPT !.data = Put(Put(p.data, "rows", rows),
                                     "columns", Get(result, "columns", << >>))]
    IN  IF rows.type = "list" /\ rows.items = << >>
        THEN IF p1.retries < 1
             THEN _reset_sql_steps(
                      [p1 EXCEPT !.retries = p1.retries + 1,
                                 !.data = Put(p1.data, "refine_hint", TRUE)])
             ELSE [p1 EXCEPT !.data = Put(p1.data, "no_matches", TRUE)]
        ELSE p1

\* lines 234-240: fold a sql_generate result (payload is a string)
ReflectSqlGenerate(p, result) ==
    LET wrapped == Get(result, "sql_wrapped", << >>)
        extracted == _extract_sql(wrapped)
        d == Put(Put(p.data, "sql_wrapped", wrapped), "sql_query", extracted)
    IN  [p EXCEPT !.data =
            IF ~Truthy(extracted)
            THEN Put(d, "error", << "The model did not return a valid SQL query." >>)
            ELSE d]

\* the reflector that folds the payload in before it looks at the error field
_reflect_FoldBeforeError(act, p, result) ==
    LET p0 == MarkCompleted(p, act)
        p1 == CASE act.tool = "faq_search" ->
                    [p0 EXCEPT !.data = Put(p0.data, "faq_items", Get(result, "items", << >>))]
                [] act.tool = "faq_answer" ->
                    [p0 EXCEPT !.data = Put(p0.data, "answer", Get(result, "text", << >>))]
                [] act.tool = "sql_generate" /\ Has(result, "sql_wrapped") ->
                    ReflectSqlGenerate(p0, result)
                [] act.tool = "sql_run" -> ReflectSqlRun(p0, result)
                [] act.tool = "verbalize" ->
                    [p0 EXCEPT !.data = Put(p0.data, "verbalization", Get(result, "text", << >>))]
                [] OTHER -> p0
    IN  IF Has(result, "error")
        THEN [p1 EXCEPT !.data = Put(p1.data, "error", result["error"])]
        ELSE p1

\* the reflector that leaves the step of a failed tool as it was
_reflect_FailedStepUnmarked(act, p, result) ==
    LET p0 == MarkCompleted(p, act)
    IN  IF Has(result, "error")
        THEN [p EXCEPT !.data = Put(p.data, "error", result["error"])]
        ELSE CASE act.tool = "faq_search" ->
                    [p0 EXCEPT !.data = Put(p0.data, "faq_items", Get(result, "items", << >>))]
               [] act.tool = "faq_answer" ->
                    [p0 EXCEPT !.data = Put(p0.data, "answer", Get(result, "text", << >>))]
               [] act.tool = "sql_generate" -> ReflectSqlGenerate(p0, result)
               [] act.tool = "sql_run" -> ReflectSqlRun(p0, result)
               [] act.tool = "verbalize" ->
                    [p0 EXCEPT !.data = Put(p0.data, "verbalization", Get(result, "text", << >>))]
               [] OTHER -> p0

\* _reflect: the plan after reflecting on result (when it does not raise)
_reflect(act, p, result) ==
    LET p0 == MarkCompleted(p, act)
    IN  IF Has(result, "error")
        THEN [p0 EXCEPT !.data = Put(p0.data, "error", result["error"])]
        ELSE CASE act.tool = "faq_search" ->
                    [p0 EXCEPT !.data = Put(p0.data, "faq_items", Get(result, "items", << >>))]
               [] act.tool = "faq_answer" ->
                    [p0 EXCEPT !.data = Put(p0.data, "answer", Get(result, "text", << >>))]
               [] act.tool = "sql_generate" -> ReflectSqlGenerate(p0, result)
               [] act.tool = "sql_run" -> ReflectSqlRun(p0, result)
               [] act.tool = "verbalize" ->
                    [p0 EXCEPT !.data = Put(p0.data, "verbalization", Get(result, "text", << >>))]
               [] OTHER -> p0

(* ------------------------------------------------------------------ *)
(* Termination check and finalizer                                     *)
(* ------------------------------------------------------------------ *)
\* the termination check without the no-matches clause
_should_stop_IgnoreNoMatches(p) ==
    IF Truthy(Get(p.data, "error", << >>)) THEN TRUE
    ELSE IF p.type = "faq" THEN Truthy(Get(p.data, "answer", << >>))
    ELSE IF p.type = "sql" THEN Truthy(Get(p.data, "verbalization", << >>))
    ELSE FALSE

_should_stop(p) ==
    IF Truthy(Get(p.data, "error", << >>)) THEN TRUE
    ELSE IF p.type = "faq" THEN Truthy(Get(p.data, "answer", << >>))
    ELSE IF p.type = "sql"
         THEN Truthy(Get(p.data, "verbalization", << >>))
              \/ Get(p.data, "no_matches", FALSE)
    ELSE FALSE

\* the trace line that names each tool once, however often it ran
_format_trace_Distinct(order) ==
    LET firsts == SelectSeq([i \in 1..Len(order) |-> << i, order[i] >>],
                            LAMBDA e : \A k \in 1..(e[1] - 1) : order[k] # e[2])
    IN  IF order = << >> THEN << "Trace: none" >>
        ELSE << "Trace: " >>
             \o Join([i \in 1..Len(firsts) |-> << firsts[i][2] >>], << " -> " >>)

_format_trace(order) ==
    IF order = << >> THEN << "Trace: none" >>
    ELSE << "Trace: " >> \o Join([i \in 1..Len(order) |-> << order[i] >>], << " -> " >>)

_format_clarification(needs) ==
    LET chunks == [i \in 1..Len(needs) |-> << needs[i] >>]
        joined == IF Len(needs) <= 2 THEN Join(chunks, << " and " >>)
                  ELSE Join(SubSeq(chunks, 1, Len(needs) - 1), << ", " >>)
                       \o << ", and " >> \o << needs[Len(needs)] >>
    IN  << "Could you share ", "the " >> \o joined \o << " you're looking for?" >>

\* the text before the trace line
FinalBody(p, override_text) ==
    LET data == p.data
        text0 == override_text
        text1 ==
            IF ~Truthy(text0) /\ Truthy(Get(data, "error", << >>))
            THEN << "Sorry, something went wrong: " >> \o data["error"]
            ELSE IF ~Truthy(text0) /\ p.type = "faq"
            THEN IF Truthy(Get(data, "answer", << >>)) THEN data["answer"]
                 ELSE << "I don't have an answer right now." >>
            ELSE IF ~Truthy(text0) /\ p.type = "sql"
            THEN IF Truthy(Get(data, "verbalization", << >>)) THEN data["verbalization"]
                 ELSE IF Get(data, "no_matches", FALSE) THEN << "No matches." >>
                 ELSE << "I'm still working on it, but I couldn't find matching products." >>
            ELSE text0
    IN  IF ~Truthy(text1) THEN << "I don't have an answer right now." >> ELSE text1

_finalize(goal, p, order, trace_records, override_text) ==
    [ text |-> FinalBody(p, override_text) \o << "\n" >> \o _format_trace(order),
      trace |-> trace_records,
      plan |-> p,
      goal |-> goal,
      memory_updates |-> Get(p.data, "memory_updates", EmptyDict) ]

(* ------------------------------------------------------------------ *)
(* Agent.run                                                           *)
(* ------------------------------------------------------------------ *)
\* lines 68-78: the clarification short-circuit
ClarifyReturn ==
    /\ pc = "clarify"
    /\ final' = _finalize(user_goal, plan, << >>, trace,
                          _format_clarification(plan.needs_clarification))
    /\ pc' = "done"
    /\ UNCHANGED << outer, user_goal, memory, tools, max_steps, plan, last_result, step_index,
                    action, iter, trace, tool_order, calls >>

\* line 82 and _choose_action: select the next step, or leave the loop
ChooseAction ==
    /\ pc = "choose"
    /\ action' = _choose_action(user_goal, memory, plan)
    /\ IF action' = NoAction
       THEN /\ pc' = "finalize"
            /\ UNCHANGED << plan, step_index >>
       ELSE /\ pc' = "execute"
            /\ plan' = SetStatus(plan, action'.index, "in_progress")
            /\ step_index' = action'.index
    /\ UNCHANGED << outer, user_goal, memory, tools, max_steps, last_result, iter, trace,
                    tool_order, calls, final >>

\* the trace record with ok taken from the truthiness of the error value
TraceRecord_OkWhenFalsy(act, result) ==
    [tool |-> act.tool, args |-> act.args,
     ok |-> ~Truthy(Get(result, "error", << >>))]

\* lines 91-97: the record appended for an executed action
TraceRecord(act, result) ==
    [tool |-> act.tool, args |-> act.args, ok |-> ~Has(result, "error")]

\* lines 86-99: the ACT and OBSERVE stages when the tool function does o
ExecuteWith(o) ==
    /\ LET result == _execute(tools, action, o)
       IN  /\ last_result' = result
           /\ trace' = Append(trace, TraceRecord(action, result))
           /\ calls' = Append(calls,
                  [tool |-> action.tool,
                   kind |-> IF action.tool \notin tools THEN "unregistered" ELSE o.kind,
                   result |-> result])
    /\ tool_order' = Append(tool_order, action.tool)
    /\ pc' = "reflect"
    /\ UNCHANGED << user_goal, memory, tools, max_steps, plan, step_index, action, iter, final >>

\* lines 86-99 and _execute: invoke the tool, record the trace entry
Execute ==
    /\ pc = "execute"
    /\ \E o \in Outcomes(action.tool) : ExecuteWith(o)
    /\ UNCHANGED outer

\* line 101 and _reflect
Reflect ==
    /\ pc = "reflect"
    /\ IF ReflectRaises(action, last_result)
       THEN /\ plan' = MarkCompleted(plan, action)
            /\ pc' = "raised"
       ELSE /\ plan' = _reflect(action, plan, last_result)
            /\ pc' = "check"
    /\ UNCHANGED << outer, user_goal, memory, tools, max_steps, last_result, step_index, action,
                    iter, trace, tool_order, calls, final >>

\* lines 103-104 and the loop bound of line 81
CheckStop ==
    /\ pc = "check"
    /\ iter' = iter + 1
    /\ pc' = IF _should_stop(plan) \/ iter' >= max_steps THEN "finalize" ELSE "choose"
    /\ UNCHANGED << outer, user_goal, memory, tools, max_steps, plan, last_result, step_index,
                    action, trace, tool_order, calls, final >>

\* lines 106-113
FinalizeReturn ==
    /\ pc = "finalize"
    /\ final' = _finalize(user_goal, plan, tool_order, trace, << >>)
    /\ pc' = "done"
    /\ UNCHANGED << outer, user_goal, memory, tools, max_steps, plan, last_result, step_index,
                    action, iter, trace, tool_order, calls >>

Next ==
    \/ Plan
    \/ ClarifyReturn
    \/ ChooseAction
    \/ Execute
    \/ Reflect
    \/ CheckStop
    \/ FinalizeReturn

Spec == Init /\ [][Next]_vars

\* run is called again on the same Agent once the previous call has been
\* left: the arguments are new, the locals of lines 63-65 and 80 are new, and
\* self.tools and self.max_steps are those of the Agent
NewTurn ==
    /\ pc \in {"done", "raised"}
    /\ turn < MaxTurns
    /\ turn' = turn + 1
    /\ earlier' = [retried |-> plan.retries > 0,
                   error |-> Has(plan.data, "error") \/ pc = "raised"]
    /\ pc' = "start"
    /\ user_goal' \in Goals
    /\ memory' \in Memories
    /\ plan' = NoPlan
    /\ last_result' = EmptyDict
    /\ step_index' = -1
    /\ action' = NoAction
    /\ iter' = 0
    /\ trace' = << >>
    /\ tool_order' = << >>
    /\ calls' = << >>
    /\ final' = EmptyDict
    /\ UNCHANGED << tools, max_steps, session_state, asks, route, talked, response >>
    /\ UNCHANGED << faq_vars, sql_vars >>

NextTurns == Next \/ NewTurn

\* several run calls, one after the other, on one Agent
SpecTurns == Init /\ [][NextTurns]_vars

(* ------------------------------------------------------------------ *)
(* ask (app/main.py): one chat session                                 *)
(* ------------------------------------------------------------------ *)
\* largest number of ask calls in a session
MaxAsks == 3

\* the names a router may return, a name outside RouteName, and a router
\* that is missing or fails
RouterOutcomes == {"faq", "sql", "small-talk", "unknown", "<raise>"}

smalltalk_keywords ==
    { <<"h", "o", "w", " ", "a", "r", "e", " ", "y", "o", "u">>,
      <<"h", "e", "l", "l", "o">>,
      <<"h", "i">>,
      <<"w", "h", "o", " ", "a", "r", "e", " ", "y", "o", "u">>,
      <<"w", "h", "a", "t", "'", "s", " ", "u", "p">> }

_needs_small_talk(query, r) ==
    IF r # "<raise>" THEN r = "small-talk"
    ELSE LET lowered == Lower(query)
         IN  \E keyword \in smalltalk_keywords : Contains(lowered, keyword)

\* _get_store: session_state.setdefault("agent_memory", {})
_get_store(st) == IF Has(st, "agent_memory") THEN st ELSE Put(st, "agent_memory", EmptyDict)

\* the snapshot of a store that is never read
_load_memory_Forgetful(st) == [brand |-> << >>, price_ceiling |-> 0]

\* memory_get(["brand", "price_ceiling"])["memory"]: both keys, None for a key
\* the store lacks.  run reads the snapshot by truthiness only, so None is
\* written as the falsy value of the key's type.
_load_memory(st) ==
    LET store == Get(st, "agent_memory", EmptyDict)
    IN  [brand |-> Get(store, "brand", << >>),
         price_ceiling |-> Get(store, "price_ceiling", 0)]

\* a persist step that writes nothing
_persist_memory_Dropped(st, updates) == st

\* memory_set(updates) unless updates is empty: store.update(updates)
_persist_memory(st, updates) ==
    IF updates = EmptyDict THEN st
    ELSE LET store == Get(st, "agent_memory", EmptyDict)
         IN  Put(st, "agent_memory",
                 [k \in DOMAIN store \cup DOMAIN updates |->
                     IF k \in DOMAIN updates THEN updates[k] ELSE store[k]])

\* what talk may return
TalkTexts == { << "S1" >>, << "S1", "\n", "S2" >> }

\* the exception that left ask, where a response would be
ExceptionLeft == << "<exception>" >>

InitAsk ==
    /\ pc = "idle"
    /\ user_goal = << >>
    /\ memory = EmptyDict
    /\ tools = ToolNames \cup {"web_search"}
    /\ max_steps = DefaultMaxSteps
    /\ plan = NoPlan
    /\ last_result = EmptyDict
    /\ step_index = -1
    /\ action = NoAction
    /\ iter = 0
    /\ trace = << >>
    /\ tool_order = << >>
    /\ calls = << >>
    /\ final = EmptyDict
    /\ turn = 1
    /\ earlier = NoEarlier
    /\ session_state = EmptyDict
    /\ asks = 0
    /\ route = NoRoute
    /\ talked = << >>
    /\ response = NoResponse
    /\ IngestOff
    /\ SqlOff

\* lines 125-132: ask is called; small talk or the entry of agent.run
AskCall ==
    /\ pc = "idle"
    /\ asks < MaxAsks
    /\ asks' = asks + 1
    /\ \E query \in Goals : \E r \in RouterOutcomes :
         /\ user_goal' = query
         /\ route' = r
         /\ IF _needs_small_talk(query, r)
            THEN /\ session_state' = Pop(session_state, "agent_pending_clarification")
                 /\ memory' = EmptyDict
                 /\ pc' = "talk"
            ELSE /\ session_state' = _get_store(session_state)
                 /\ memory' = _load_memory(session_state)
                 /\ pc' = "start"
    /\ plan' = NoPlan
    /\ last_result' = EmptyDict
    /\ step_index' = -1
    /\ action' = NoAction
    /\ iter' = 0
    /\ trace' = << >>
    /\ tool_order' = << >>
    /\ calls' = << >>
    /\ final' = EmptyDict
    /\ talked' = << >>
    /\ response' = NoResponse
    /\ UNCHANGED << tools, max_steps, turn, earlier >>
    /\ UNCHANGED << faq_vars, sql_vars >>

\* lines 127-128: talk returned
TalkReturn ==
    /\ pc = "talk"
    /\ \E t \in TalkTexts :
         /\ talked' = t
         /\ response' = t \o << "\n", "Trace: small_talk" >>
    /\ pc' = "idle"
    /\ UNCHANGED << user_goal, memory, tools, max_steps, plan, last_result, step_index,
                    action, iter, trace, tool_order, calls, final, turn, earlier,
                    session_state, asks, route >>
    /\ UNCHANGED << faq_vars, sql_vars >>

\* line 127: talk raised, the exception leaves ask
TalkRaise ==
    /\ pc = "talk"
    /\ response' = ExceptionLeft
    /\ pc' = "idle"
    /\ UNCHANGED << user_goal, memory, tools, max_steps, plan, last_result, step_index,
                    action, iter, trace, tool_order, calls, final, turn, earlier,
                    session_state, asks, route, talked >>
    /\ UNCHANGED << faq_vars, sql_vars >>

\* agent.run returned and the flag, once set, is left where it is
AskReturn_FlagKept ==
    /\ pc = "done"
    /\ asks > 0
    /\ LET st1 == _persist_memory(session_state, Get(final, "memory_updates", EmptyDict))
           needs == final.plan.needs_clarification
       IN  session_state' =
               IF needs # << >>
               THEN Put(st1, "agent_pending_clarification", needs)
               ELSE st1
    /\ response' = final.text
    /\ pc' = "idle"
    /\ UNCHANGED << user_goal, memory, tools, max_steps, plan, last_result, step_index,
                    action, iter, trace, tool_order, calls, final, turn, earlier,
                    asks, route, talked >>
    /\ UNCHANGED << faq_vars, sql_vars >>

\* lines 134-144: agent.run returned.  The write of agent_last_trace (line
\* 142), a value nothing reads, is left out of session_state.
AskReturn ==
    /\ pc = "done"
    /\ asks > 0
    /\ LET st1 == _persist_memory(session_state, Get(final, "memory_updates", EmptyDict))
           needs == final.plan.needs_clarification
       IN  session_state' =
               IF needs # << >>
               THEN Put(st1, "agent_pending_clarification", needs)
               ELSE Pop(st1, "agent_pending_clarification")
    /\ response' = final.text
    /\ pc' = "idle"
    /\ UNCHANGED << user_goal, memory, tools, max_steps, plan, last_result, step_index,
                    action, iter, trace, tool_order, calls, final, turn, earlier,
                    asks, route, talked >>
    /\ UNCHANGED << faq_vars, sql_vars >>

\* line 132: the exception that left agent.run leaves ask
AskRaised ==
    /\ pc = "raised"
    /\ asks > 0
    /\ response' = ExceptionLeft
    /\ pc' = "idle"
    /\ UNCHANGED << user_goal, memory, tools, max_steps, plan, last_result, step_index,
                    action, iter, trace, tool_order, calls, final, turn, earlier,
                    session_state, asks, route, talked >>
    /\ UNCHANGED << faq_vars, sql_vars >>

NextAsk == AskCall \/ TalkReturn \/ TalkRaise \/ AskReturn \/ AskRaised \/ Next

\* a session of ask calls on one Agent and one session state
SpecAsk == InitAsk /\ [][NextAsk]_vars

(* ================================================================== *)
(* Properties                                                          *)
(* ================================================================== *)
Count(tool_name) == Cardinality({i \in 1..Len(trace) : trace[i].tool = tool_name})

\* text.splitlines()[0] and the last line of a non-empty text
FirstLine(text) ==
    LET nl == {i \in 1..Len(text) : text[i] = "\n"}
    IN  IF nl = {} THEN text ELSE SubSeq(text, 1, Min(nl) - 1)
Max(S) == CHOOSE x \in S : \A y \in S : x >= y
LastLine(text) ==
    LET nl == {i \in 1..Len(text) : text[i] = "\n"}
    IN  IF nl = {} THEN text ELSE SubSeq(text, Max(nl) + 1, Len(text))
EndsWith(text, suffix) ==
    /\ Len(suffix) <= Len(text)
    /\ SubSeq(text, Len(text) - Len(suffix) + 1, Len(text)) = suffix

\* what a recorded call did
Succeeded(c) == c.kind = "return" /\ ~Has(c.result, "error")
\* sql_generate returned a payload holding a non-empty wrapped query
GenerateSucceeded(c) ==
    /\ c.tool = "sql_generate"
    /\ Succeeded(c)
    /\ Has(c.result, "sql_wrapped")
    /\ c.result["sql_wrapped"] # None
    /\ Truthy(_extract_sql(c.result["sql_wrapped"]))
\* sql_run returned an empty list of rows
RunReturnedEmpty(c) ==
    /\ c.tool = "sql_run"
    /\ Succeeded(c)
    /\ Get(c.result, "rows", EmptyRows) = EmptyRows
\* sql_run returned a list of at least one row
RunReturnedRows(c) ==
    /\ c.tool = "sql_run"
    /\ Succeeded(c)
    /\ Has(c.result, "rows")
    /\ c.result["rows"].type = "list"
    /\ c.result["rows"].items # << >>
ReturnedText(c, tool_name) ==
    /\ c.tool = tool_name
    /\ Succeeded(c)
    /\ Has(c.result, "text")
    /\ c.result["text"] # << >>
TraceOk == \A i \in 1..Len(trace) : trace[i].ok

SqlTurn == pc # "start" /\ plan.type = "sql"
FaqTurn == pc # "start" /\ plan.type = "faq"

(* ---- C1 ---------------------------------------------------------- *)
\* C1: in a DATA_QUERY turn, whatever the tools return or raise, at most two
\* sql_run actions are executed (each executed action has one trace record).
C1_SqlRunAtMostTwice == SqlTurn => Count("sql_run") <= 2

\* the refinement retry happened: sql_run was executed a second time
C1_Witness == SqlTurn /\ Count("sql_run") = 2 /\ pc = "done"

(* ---- C2 ---------------------------------------------------------- *)
\* every sql_generate call so far succeeded and every sql_run call so far
\* returned an empty row list
AllGenerateOkAllRunEmpty ==
    \A i \in 1..Len(calls) :
        /\ calls[i].tool = "sql_generate" => GenerateSucceeded(calls[i])
        /\ calls[i].tool = "sql_run" => RunReturnedEmpty(calls[i])

\* C2: a DATA_QUERY turn (no clarification needed) in which sql_generate
\* succeeds each time and sql_run returns an empty row list each time ends
\* with first line "No matches.", trace sql_generate -> sql_run ->
\* sql_generate -> sql_run, and verbalize never invoked.
C2_SecondEmptyResultNoMatches ==
    (pc = "done" /\ SqlTurn /\ plan.needs_clarification = << >>
        /\ AllGenerateOkAllRunEmpty)
    => /\ FirstLine(final.text) = << "No matches." >>
       /\ tool_order = << "sql_generate", "sql_run", "sql_generate", "sql_run" >>
       /\ [i \in 1..Len(final.trace) |-> final.trace[i].tool] = tool_order
       /\ Count("verbalize") = 0

C2_Witness ==
    /\ pc = "done"
    /\ SqlTurn
    /\ AllGenerateOkAllRunEmpty
    /\ Len(calls) = 4
    /\ plan.retries = 1

(* ---- C3 ---------------------------------------------------------- *)
\* A step whose tool already has a trace record was executed before, and the
\* Reflector marked it COMPLETED then.  At pc = "execute" the selector has
\* just selected action.index.
SelectedAfterCompleted == pc = "execute" /\ Count(action.tool) > 0

\* C3 as stated: once COMPLETED, a step is never selected again in the turn.
C3_CompletedNeverSelectedAgain == ~SelectedAfterCompleted

\* C3 as amended: a COMPLETED step is selected again only after the
\* refinement policy reset it to PENDING: only in a DATA_QUERY plan, only
\* sql_generate and sql_run, only once (retries = 1, refinement flag set);
\* in an FAQ plan never.  The step selected is PENDING when selected.
C3_SelectedAgainOnlyAfterReset ==
    /\ SelectedAfterCompleted =>
          /\ plan.type = "sql"
          /\ plan.retries = 1
          /\ Get(plan.data, "refine_hint", FALSE)
          /\ action.tool \in {"sql_generate", "sql_run"}
          /\ Count(action.tool) = 1
    /\ pc = "execute" =>
          /\ plan.steps[action.index].status = "in_progress"
          /\ \A i \in DOMAIN plan.steps :
                plan.steps[i].status = "completed" => i # action.index

C3_Witness ==
    /\ SelectedAfterCompleted
    /\ action.tool = "sql_run"
    /\ plan.steps[0].status = "completed"

(* ---- C4 ---------------------------------------------------------- *)
\* C4: when sql_generate succeeds and the first sql_run raises with message
\* M, the final text contains M, the trace has exactly the two entries
\* sql_generate, sql_run, and the second is marked not ok.
C4_ErrorShortCircuit ==
    (pc = "done" /\ SqlTurn /\ Len(calls) >= 2
        /\ GenerateSucceeded(calls[1])
        /\ calls[2].tool = "sql_run" /\ calls[2].kind = "raise")
    => /\ Contains(final.text, calls[2].result["error"])
       /\ Len(final.trace) = 2
       /\ final.trace[1].tool = "sql_generate"
       /\ final.trace[2].tool = "sql_run"
       /\ final.trace[2].ok = FALSE

(* ---- C5 ---------------------------------------------------------- *)
\* C5: run never raises; it returns a record with text, trace, plan, goal and
\* memory_updates, and every tool failure (raise or registry miss) shows
\* only as an error result with a not-ok trace record.
C5_RunNeverRaises ==
    /\ pc # "raised"
    /\ pc = "done" => DOMAIN final = {"text", "trace", "plan", "goal", "memory_updates"}
    /\ \A i \in 1..Len(calls) :
          calls[i].kind \in {"raise", "unregistered"} =>
              /\ Has(calls[i].result, "error")
              /\ trace[i].ok = FALSE

(* ---- C6 ---------------------------------------------------------- *)
\* no brand token in the goal and no brand in the snapshot; no number of three
\* or more digits in the goal and no price ceiling in the snapshot
NoBrandSignal ==
    /\ \A b \in BRAND_HINTS : ~Contains(Lower(user_goal), b)
    /\ ~(Has(memory, "brand") /\ memory["brand"] # << >>)
NoBudgetSignal ==
    /\ \A i \in 1..Len(user_goal) : DigitRun(user_goal, i) < 3
    /\ ~(Has(memory, "price_ceiling") /\ memory["price_ceiling"] # 0)

\* C6: a DATA_QUERY turn with neither a brand nor a budget signal invokes no
\* tool, returns an empty trace, ends its text with "Trace: none" and asks
\* for "the preferred brand and budget ceiling".
C6_ClarificationShortCircuit ==
    (pc = "done" /\ SqlTurn /\ NoBrandSignal /\ NoBudgetSignal)
    => /\ calls = << >>
       /\ final.trace = << >>
       /\ LastLine(final.text) = << "Trace: none" >>
       /\ Contains(final.text,
                   << "the ", "preferred brand", " and ", "budget ceiling" >>)
       /\ \A i \in DOMAIN final.plan.steps : final.plan.steps[i].status = "pending"

C6_Witness == pc = "done" /\ SqlTurn /\ NoBrandSignal /\ NoBudgetSignal

(* ---- C7 ---------------------------------------------------------- *)
HasFaqKeyword ==
    LET lowered == Lower(user_goal)
    IN  \E w \in FAQ_KEYWORDS : Contains(lowered, w)
HasSqlKeyword ==
    LET lowered == Lower(user_goal)
    IN  \E w \in SQL_KEYWORDS : Contains(lowered, w)

\* C7: the plan type is FAQ if the lower-cased goal contains an FAQ keyword
\* (even with a data-query keyword), DATA_QUERY if it contains a data-query
\* keyword and no FAQ keyword, FAQ if it contains neither.
C7_Classification ==
    pc # "start" =>
        /\ HasFaqKeyword => plan.type = "faq"
        /\ (HasSqlKeyword /\ ~HasFaqKeyword) => plan.type = "sql"
        /\ (~HasSqlKeyword /\ ~HasFaqKeyword) => plan.type = "faq"

\* a goal with keywords of both classes was classified
C7_Witness == pc # "start" /\ HasFaqKeyword /\ HasSqlKeyword /\ plan.type = "faq"

(* ---- C8 ---------------------------------------------------------- *)
StagedUpdates == Get(plan.data, "memory_updates", EmptyDict)
Puma == <<"P", "u", "m", "a">>

\* C8: the preference updates are fixed when the plan is built (a value
\* _guess_preferences can return for the goal and the snapshot), no later
\* stage changes them, and run returns exactly them; "Need Puma shoes under
\* 3000." with an empty snapshot returns brand "Puma", price_ceiling 3000.
C8_MemoryUpdatesFixed ==
    /\ [][pc # "start" => StagedUpdates' = StagedUpdates]_vars
    /\ [](pc # "start" =>
            StagedUpdates \in _guess_preferences(Lower(user_goal), memory))
    /\ [](pc = "done" => final.memory_updates = StagedUpdates)
    /\ []((pc = "done" /\ user_goal = Goal2 /\ memory = EmptyDict) =>
            final.memory_updates = [brand |-> Puma, price_ceiling |-> 3000])

\* the updates are returned by a turn that used its refinement retry
C8_Witness ==
    /\ pc = "done"
    /\ user_goal = Goal2
    /\ memory = EmptyDict
    /\ plan.retries = 1
    /\ final.memory_updates = [brand |-> Puma, price_ceiling |-> 3000]

(* ---- C9 ---------------------------------------------------------- *)
FaqHappyPath ==
    /\ pc = "done"
    /\ FaqTurn
    /\ Len(calls) >= 2
    /\ calls[1].tool = "faq_search" /\ Succeeded(calls[1])
    /\ ReturnedText(calls[2], "faq_answer")

FaqHappyPathCalls ==
    /\ tool_order = << "faq_search", "faq_answer" >>
    /\ Len(final.trace) = 2
    /\ final.trace[1].tool = "faq_search"
    /\ final.trace[1].args = [query |-> user_goal, k |-> 3]
    /\ final.trace[2].tool = "faq_answer"
    /\ final.trace[2].args =
          [question |-> user_goal, context |-> Get(calls[1].result, "items", << >>)]
    /\ final.trace[1].ok /\ final.trace[2].ok
    /\ EndsWith(final.text, << "Trace: ", "faq_search", " -> ", "faq_answer" >>)

\* C9 as stated: on the FAQ happy path the calls are as described and the
\* first line of the final text equals the faq_answer text.
C9_FaqHappyPathFirstLine ==
    FaqHappyPath =>
        /\ FaqHappyPathCalls
        /\ FirstLine(final.text) = calls[2].result["text"]

\* C9 as amended: on the FAQ happy path the calls are as described and the
\* final text is the faq_answer text followed by a line break and the trace
\* line; its first line equals the faq_answer text when that text is a
\* single line.
C9_FaqHappyPathText ==
    FaqHappyPath =>
        /\ FaqHappyPathCalls
        /\ final.text = calls[2].result["text"]
                        \o << "\n", "Trace: ", "faq_search", " -> ", "faq_answer" >>
        /\ (\A i \in 1..Len(calls[2].result["text"]) :
                calls[2].result["text"][i] # "\n")
           => FirstLine(final.text) = calls[2].result["text"]

C9_Witness ==
    /\ FaqHappyPath
    /\ Get(calls[1].result, "items", << >>) # << >>
    /\ FirstLine(final.text) = calls[2].result["text"]

(* ---- C10 --------------------------------------------------------- *)
SqlSuccessPath ==
    /\ pc = "done"
    /\ SqlTurn
    /\ plan.needs_clarification = << >>
    /\ Len(calls) >= 3
    /\ GenerateSucceeded(calls[1])
    /\ RunReturnedRows(calls[2])
    /\ ReturnedText(calls[3], "verbalize")

SqlSuccessPathCalls ==
    /\ tool_order = << "sql_generate", "sql_run", "verbalize" >>
    /\ Len(final.trace) = 3
    /\ \A i \in 1..3 : final.trace[i].tool = tool_order[i] /\ final.trace[i].ok
    /\ final.trace[3].args = [question |-> user_goal, data |-> calls[2].result["rows"]]

\* C10 as stated: on the DATA_QUERY success path the trace is sql_generate ->
\* sql_run -> verbalize, all ok, verbalize receives the rows sql_run
\* returned, and the first line of the final text equals the verbalize text.
C10_SqlSuccessFirstLine ==
    SqlSuccessPath =>
        /\ SqlSuccessPathCalls
        /\ FirstLine(final.text) = calls[3].result["text"]

\* C10 as amended: as stated, except that the final text is the verbalize
\* text followed by a line break and the trace line; its first line equals
\* the verbalize text when that text is a single line.
C10_SqlSuccessText ==
    SqlSuccessPath =>
        /\ SqlSuccessPathCalls
        /\ final.text = calls[3].result["text"]
                        \o << "\n", "Trace: ", "sql_generate", " -> ", "sql_run",
                              " -> ", "verbalize" >>
        /\ (\A i \in 1..Len(calls[3].result["text"]) :
                calls[3].result["text"][i] # "\n")
           => FirstLine(final.text) = calls[3].result["text"]

C10_Witness ==
    /\ SqlSuccessPath
    /\ Len(calls[2].result["rows"].items) = 2
    /\ FirstLine(final.text) = calls[3].result["text"]

(* ---- C11 --------------------------------------------------------- *)
\* the question of the i-th executed action carries the refine instruction
CarriesRefine(i) == EndsWith(trace[i].args.question, RefineInstruction)

\* an sql_run executed before the i-th action returned an empty list of rows
EarlierEmptyRun(i) == \E j \in 1..(i - 1) : RunReturnedEmpty(calls[j])

EarlierGenerate(i) == \E j \in 1..(i - 1) : trace[j].tool = "sql_generate"

\* C11: the question passed to sql_generate carries the refine instruction
\* exactly when an earlier sql_run of the same turn returned an empty list of
\* rows. The first sql_generate of a turn never carries it (with an empty
\* memory snapshot its question is the goal itself); an sql_generate that
\* follows a reset always carries it.
C11_RefineInstruction ==
    \A i \in 1..Len(trace) :
        trace[i].tool = "sql_generate" =>
            /\ CarriesRefine(i) <=> EarlierEmptyRun(i)
            /\ Contains(trace[i].args.question, RefineInstruction)
                   <=> CarriesRefine(i)
            /\ ~EarlierGenerate(i) =>
                   /\ ~CarriesRefine(i)
                   /\ memory = EmptyDict => trace[i].args.question = user_goal
            /\ EarlierGenerate(i) =>
                   /\ CarriesRefine(i)
                   /\ trace[i].args.question =
                          _apply_memory_to_question(user_goal, memory)
                          \o RefineInstruction

\* a second sql_generate ran after an empty result and carried the instruction
C11_Witness ==
    /\ Len(trace) >= 3
    /\ trace[1].tool = "sql_generate" /\ ~CarriesRefine(1)
    /\ RunReturnedEmpty(calls[2])
    /\ trace[3].tool = "sql_generate" /\ CarriesRefine(3)
    /\ memory # EmptyDict

(* ---- C12 --------------------------------------------------------- *)
\* run has been left: by its return, or by an exception that escaped it
TurnEnded == pc \in {"done", "raised"}

\* the Finalizer has run: run returned the mapping _finalize built
Finalized == pc = "done" /\ final # EmptyDict

\* C12: every turn terminates. With the default bound of 5 steps run performs
\* at most 5 tool invocations, so the trace has at most 5 records, and the
\* Finalizer runs exactly once, after the last invocation: it has not run
\* while the turn is under way, and when the turn has ended it has run on the
\* complete trace.
C12_TurnTerminatesFinalized ==
    /\ max_steps = DefaultMaxSteps =>
           /\ Len(calls) <= DefaultMaxSteps
           /\ Len(trace) <= DefaultMaxSteps
           /\ iter <= DefaultMaxSteps
    /\ ~TurnEnded => final = EmptyDict
    /\ TurnEnded => Finalized /\ final.trace = trace

(* ---- C13 --------------------------------------------------------- *)
\* the Reflector is looking at an sql_run result without an error field whose
\* rows value is an empty list (a missing rows key reads as [])
ReflectingEmptyRun ==
    /\ pc = "reflect"
    /\ action.tool = "sql_run"
    /\ ~Has(last_result, "error")
    /\ Get(last_result, "rows", EmptyRows) = EmptyRows

\* C13 (range): in every reachable state of a turn the plan's retries counter
\* is 0 or 1.
C13_RetriesRange == plan.retries \in 0..1

\* C13 (steps): retries is never decremented, and it is incremented, by one,
\* only by the Reflector on an sql_run result with an empty row list.
C13_RetriesSteps ==
    [][/\ plan'.retries >= plan.retries
       /\ plan'.retries > plan.retries =>
              /\ ReflectingEmptyRun
              /\ plan'.retries = plan.retries + 1]_vars

\* C13: both parts together
C13_Retries == []C13_RetriesRange /\ C13_RetriesSteps

\* the one retry has been spent and the turn went on to its end
C13_Witness == pc = "done" /\ plan.retries = 1 /\ Count("sql_run") = 2

(* ---- C14 --------------------------------------------------------- *)
InProgress == {i \in DOMAIN plan.steps : plan.steps[i].status = "in_progress"}

\* C14: in every reachable state of a turn at most one plan step has status
\* IN_PROGRESS.
C14_AtMostOneInProgress == Cardinality(InProgress) <= 1

\* the second step of the plan is in progress, the first one is completed
C14_Witness ==
    /\ pc = "execute"
    /\ InProgress = {1}
    /\ plan.steps[0].status = "completed"

(* ---- C15 --------------------------------------------------------- *)
\* the records of the trace are those of the executed actions, in order
OneRecordPerAction ==
    /\ Len(trace) = Len(calls)
    /\ Len(trace) = iter + (IF pc \in {"reflect", "check", "raised"} THEN 1 ELSE 0)
    /\ \A i \in 1..Len(trace) :
           /\ trace[i].tool = calls[i].tool
           /\ trace[i].ok <=> ~Has(calls[i].result, "error")
           /\ DOMAIN trace[i] = {"tool", "args", "ok"}

\* a step of the turn leaves the trace alone, unless it executes the selected
\* action: then it appends the record of that action and its result
AppendOnly ==
    IF pc = "execute"
    THEN /\ Len(trace') = Len(trace) + 1
         /\ SubSeq(trace', 1, Len(trace)) = trace
         /\ trace'[Len(trace')].tool = action.tool
         /\ trace'[Len(trace')].args = action.args
         /\ trace'[Len(trace')].ok <=> ~Has(last_result', "error")
    ELSE trace' = trace

\* C15: the trace is append-only with exactly one record {tool, args, ok} per
\* executed action, in execution order; ok is true exactly when the tool
\* result has no error field, and no earlier record is changed or removed.
C15_TraceAppendOnly == []OneRecordPerAction /\ [][AppendOnly]_vars

\* a failed action with an empty error message was recorded between two
\* successful ones
C15_Witness ==
    /\ Len(trace) = 3
    /\ trace[1].ok /\ ~trace[2].ok /\ trace[3].ok
    /\ calls[2].result = [error |-> << >>]

(* ---- C16 --------------------------------------------------------- *)
\* "Trace: " followed by the tool names of the records, joined by " -> "
TraceLineOf(records) ==
    [k \in 1..(2 * Len(records)) |->
        IF k = 1 THEN "Trace: "
        ELSE IF k % 2 = 0 THEN records[k \div 2].tool
        ELSE " -> "]

\* C16: the last line of the returned text agrees with the returned trace
\* list: it is "Trace: " followed by the tool names of the trace records, in
\* order, joined by " -> ", and it is "Trace: none" exactly when the trace
\* list is empty.
C16_TraceLineAgrees ==
    pc = "done" =>
        /\ final.trace # << >> => LastLine(final.text) = TraceLineOf(final.trace)
        /\ LastLine(final.text) = << "Trace: none" >> <=> final.trace = << >>

\* a turn with a refinement retry returned: the trace line names sql_generate
\* and sql_run twice
C16_Witness ==
    /\ pc = "done"
    /\ Len(final.trace) = 5
    /\ LastLine(final.text) =
           << "Trace: ", "sql_generate", " -> ", "sql_run", " -> ",
              "sql_generate", " -> ", "sql_run", " -> ", "verbalize" >>

(* ---- C17 --------------------------------------------------------- *)
\* the i-th executed action named a tool that is not in the registry
RegistryMiss(i) == calls[i].tool \notin tools

\* C17: when the selected step's tool is absent from the registry, no tool
\* function is invoked for that action (the result does not come from a tool:
\* it is the error naming the tool), a trace record with ok = false is
\* appended for it, the loop halts at that iteration's termination check with
\* no further action selected, and the final text is the "Sorry, something
\* went wrong" template naming the unregistered tool.
C17_RegistryMiss ==
    \A i \in 1..Len(calls) :
        RegistryMiss(i) =>
            /\ calls[i].kind = "unregistered"
            /\ calls[i].result = [error |-> << "Tool '", calls[i].tool,
                                              "' is not registered." >>]
            /\ trace[i].tool = calls[i].tool /\ ~trace[i].ok
            /\ i = Len(calls)
            /\ pc \in {"reflect", "check", "finalize", "done"}
            /\ pc = "check" => _should_stop(plan)
            /\ pc = "done" =>
                   /\ final.trace = trace
                   /\ final.text =
                          << "Sorry, something went wrong: ", "Tool '",
                             calls[i].tool, "' is not registered.", "\n" >>
                          \o LastLine(final.text)

\* the second action of a turn named an unregistered tool and the turn
\* returned
C17_Witness ==
    /\ pc = "done"
    /\ Len(calls) = 2
    /\ ~RegistryMiss(1) /\ trace[1].ok
    /\ RegistryMiss(2)

(* ---- C18 --------------------------------------------------------- *)
\* the result of the i-th executed action carries an error field
ErrorResult(i) == Has(calls[i].result, "error")

\* C18: the presence of an error field in a tool result is terminal. After
\* any tool result that carries an error field (returned by the tool or made
\* from a raised fault) the loop stops at that iteration's termination check,
\* no further tool is invoked in the turn, and the final text is the fixed
\* "something went wrong" template.
C18_ErrorFieldTerminal ==
    \A i \in 1..Len(calls) :
        ErrorResult(i) =>
            /\ i = Len(calls)
            /\ pc \notin {"choose", "execute"}
            /\ pc = "check" => _should_stop(plan)
            /\ pc = "done" =>
                   final.text = << "Sorry, something went wrong: " >>
                                \o calls[i].result["error"]
                                \o << "\n" >> \o LastLine(final.text)

(* ---- C19 --------------------------------------------------------- *)
Pending == {i \in DOMAIN plan.steps : plan.steps[i].status = "pending"}

\* the step the selector comes to is sql_run and the plan holds no generated
\* query
RunWithoutQuery ==
    /\ Pending # {}
    /\ plan.steps[Min(Pending)].tool = "sql_run"
    /\ ~Truthy(Get(plan.data, "sql_query", None))

\* every sql_run received the non-empty query extracted from the result of
\* the sql_generate executed just before it
RunHasGeneratedQuery ==
    \A i \in 1..Len(trace) :
        trace[i].tool = "sql_run" =>
            /\ i > 1
            /\ GenerateSucceeded(calls[i - 1])
            /\ Truthy(trace[i].args.sql)
            /\ trace[i].args =
                   [sql |-> _extract_sql(calls[i - 1].result["sql_wrapped"])]

\* a selection without a generated query returns no action and ends the loop:
\* nothing is executed and the plan, with its step statuses, is left as it was
NoQueryNoAction ==
    (pc = "choose" /\ RunWithoutQuery) =>
        /\ action' = NoAction
        /\ pc' = "finalize"
        /\ UNCHANGED << plan, step_index, trace, calls, tool_order >>

\* C19: sql_run is never invoked without a generated query. Every sql_run
\* invocation receives a non-empty query string extracted from the result of
\* the sql_generate invocation that immediately precedes it in the trace; when
\* no generated query is available the selector returns no action, the loop
\* ends, and no step is marked IN_PROGRESS by that selection.
C19_RunNeedsGeneratedQuery ==
    /\ [](RunHasGeneratedQuery /\ (pc \in {"finalize", "done"} => InProgress = {}))
    /\ [][NoQueryNoAction]_vars

\* after a refinement reset the second sql_generate left no query (its fault
\* had an empty message): the selector returned no action at the pending
\* sql_run and the turn returned
C19_Witness ==
    /\ pc = "done"
    /\ action = NoAction
    /\ tool_order = << "sql_generate", "sql_run", "sql_generate" >>
    /\ ErrorResult(3)
    /\ RunWithoutQuery

(* ---- C20 --------------------------------------------------------- *)
\* the payload holds no query between the markers, or an empty one
NoWrappedQuery(payload) == payload = None \/ ~Truthy(_extract_sql(payload))

\* the i-th executed action is an sql_generate that returned without error a
\* payload from which no query can be extracted
ExtractionFailure(i) ==
    /\ calls[i].tool = "sql_generate"
    /\ Succeeded(calls[i])
    /\ NoWrappedQuery(Get(calls[i].result, "sql_wrapped", << >>))

InvalidSqlMessage == << "The model did not return a valid SQL query." >>

\* C20: when sql_generate returns without error but its payload contains no
\* query between the open and close markers (or an empty one), a domain error
\* is recorded, the loop stops before sql_run is invoked, the trace holds no
\* sql_run record after that sql_generate, and the final text is the error
\* template with the message "The model did not return a valid SQL query."
C20_ExtractionFailure ==
    \A i \in 1..Len(calls) :
        ExtractionFailure(i) =>
            /\ i = Len(calls)
            /\ \A j \in (i + 1)..Len(trace) : trace[j].tool # "sql_run"
            /\ pc \in {"reflect", "check", "finalize", "done"}
            /\ pc # "reflect" => Get(plan.data, "error", None) = InvalidSqlMessage
            /\ pc = "check" => _should_stop(plan)
            /\ pc = "done" =>
                   final.text = << "Sorry, something went wrong: " >>
                                \o InvalidSqlMessage
                                \o << "\n" >> \o LastLine(final.text)

(* ---- C21 --------------------------------------------------------- *)
\* the first sql_run of a DATA_QUERY turn returned an empty list of rows
FirstRunEmpty == SqlTurn /\ Len(calls) >= 2 /\ RunReturnedEmpty(calls[2])

\* the Reflector has just handled that result
JustReset == FirstRunEmpty /\ Len(calls) = 2 /\ pc = "check"

\* the three data-query steps are pending again and the artifacts of the
\* first attempt are gone
ResetDone ==
    /\ plan.retries = 1
    /\ \A i \in DOMAIN plan.steps : plan.steps[i].status = "pending"
    /\ {plan.steps[i].tool : i \in DOMAIN plan.steps} = SqlStepTools
    /\ DOMAIN plan.data \cap {"sql_query", "rows", "verbalization"} = {}
    /\ ~_should_stop(plan)

\* the turn returned after a second sql_run that found rows and a verbalize
\* that returned a text
RetryPath ==
    /\ pc = "done"
    /\ FirstRunEmpty
    /\ Len(calls) >= 5
    /\ RunReturnedRows(calls[4])
    /\ ReturnedText(calls[5], "verbalize")

RetryPathCalls ==
    /\ tool_order = << "sql_generate", "sql_run", "sql_generate", "sql_run",
                       "verbalize" >>
    /\ Len(final.trace) = 5
    /\ \A i \in 1..5 : final.trace[i].tool = tool_order[i] /\ final.trace[i].ok
    /\ final.trace[5].args = [question |-> user_goal, data |-> calls[4].result["rows"]]

\* a second sql_run that finds rows is followed by verbalize in the same turn
VerbalizeFollows ==
    (pc = "done" /\ FirstRunEmpty /\ Len(calls) >= 4 /\ RunReturnedRows(calls[4]))
        => Len(calls) = 5 /\ calls[5].tool = "verbalize"

\* C21 as stated: the refinement retry is a full extra pass that completes
\* within the step bound. If the first sql_run returns an empty row list, all
\* three data-query steps are reset to PENDING and the stored query, rows and
\* verbalization are discarded; when the second sql_run then returns at least
\* one row, verbalize is invoked in the same turn, the trace is sql_generate
\* -> sql_run -> sql_generate -> sql_run -> verbalize and the first line of
\* the final text is the verbalize text.
C21_RetryFirstLine ==
    /\ JustReset => ResetDone
    /\ VerbalizeFollows
    /\ RetryPath =>
           /\ RetryPathCalls
           /\ FirstLine(final.text) = calls[5].result["text"]

\* C21 as amended: as stated, except that the final text is the verbalize
\* text followed by a line break and the trace line; its first line is the
\* verbalize text when that text is a single line.
C21_RetryText ==
    /\ JustReset => ResetDone
    /\ VerbalizeFollows
    /\ RetryPath =>
           /\ RetryPathCalls
           /\ final.text = calls[5].result["text"]
                           \o << "\n", "Trace: ", "sql_generate", " -> ", "sql_run",
                                 " -> ", "sql_generate", " -> ", "sql_run",
                                 " -> ", "verbalize" >>
           /\ (\A i \in 1..Len(calls[5].result["text"]) :
                   calls[5].result["text"][i] # "\n")
              => FirstLine(final.text) = calls[5].result["text"]

\* a turn with the default bound used its retry, found rows and returned the
\* verbalize text
C21_Witness ==
    /\ RetryPath
    /\ max_steps = DefaultMaxSteps
    /\ Len(calls[4].result["rows"].items) = 1
    /\ FirstLine(final.text) = calls[5].result["text"]

(* ---- C22 --------------------------------------------------------- *)
\* the returned text without its last line, the trace line
TextBeforeTraceLine ==
    LET nl == {i \in 1..Len(final.text) : final.text[i] = "\n"}
    IN  SubSeq(final.text, 1, Max(nl) - 1)

\* the text the precedence rule selects from the returned plan, with
\* "recorded" read as the presence of the error key
TextByPrecedence ==
    LET p == final.plan
        data == p.data
    IN  IF p.needs_clarification # << >>
        THEN _format_clarification(p.needs_clarification)
        ELSE IF Has(data, "error")
        THEN << "Sorry, something went wrong: " >> \o data["error"]
        ELSE IF p.type = "faq"
        THEN IF Truthy(Get(data, "answer", << >>)) THEN data["answer"]
             ELSE << "I don't have an answer right now." >>
        ELSE IF Truthy(Get(data, "verbalization", << >>)) THEN data["verbalization"]
        ELSE IF Get(data, "no_matches", FALSE) THEN << "No matches." >>
        ELSE << "I'm still working on it, but I couldn't find matching products." >>

\* C22: the text before the trace line is chosen by strict precedence over the
\* final plan data: the clarification override if one was given; otherwise
\* the "Sorry, something went wrong: <error>" template if an error is
\* recorded; otherwise, for FAQ, the answer if produced, else "I don't have an
\* answer right now."; for DATA_QUERY, the verbalization if produced, else
\* "No matches." if the no-matches flag is set, else the fixed still-working
\* text. The text is never empty.
C22_TextPrecedence ==
    pc = "done" =>
        /\ final.plan = plan
        /\ TextBeforeTraceLine = TextByPrecedence
        /\ TextBeforeTraceLine # << >>

(* ---- C23 --------------------------------------------------------- *)
\* a number of lo..hi digits (a whole digit word) appears in the goal text
GoalHasNumber(lo, hi) ==
    \E i \in 1..Len(user_goal) : BoundedNumberAt(Lower(user_goal), i, lo, hi)

GoalHasBrand ==
    LET lowered == Lower(user_goal)
    IN  \E b \in BRAND_HINTS : Contains(lowered, b)

Needs(name) ==
    \E i \in 1..Len(plan.needs_clarification) : plan.needs_clarification[i] = name

\* C23: in the prerequisite check of a DATA_QUERY plan, budget counts as known
\* whenever a number of 3, 4, 5 or 6 digits appears in the goal text or the
\* snapshot carries a price ceiling, and "budget ceiling" is then not put in
\* needs_clarification; brand counts as known whenever a known-brand token
\* appears in the goal text or the snapshot carries a brand.
C23_PrerequisitesKnown ==
    SqlTurn =>
        /\ (GoalHasNumber(3, 6) \/ MemPrice(memory)) => ~Needs("budget ceiling")
        /\ (GoalHasBrand \/ MemBrand(memory)) => ~Needs("preferred brand")

(* ---- C24 --------------------------------------------------------- *)
\* v is the value of a run of 3 to 6 digits of the goal text
PriceInGoal(v) ==
    \E i \in 1..Len(user_goal) : \E n \in 3..6 :
        /\ i + n - 1 <= Len(user_goal)
        /\ \A k \in i..(i + n - 1) : IsDigit(user_goal[k])
        /\ ToInt(SubSeq(user_goal, i, i + n - 1)) = v

\* b is the title-cased form of a known-brand token of the goal text
BrandInGoal(b) ==
    LET lowered == Lower(user_goal)
    IN  \E hint \in BRAND_HINTS : Contains(lowered, hint) /\ b = Title(hint)

OnlyInferredUpdates(updates) ==
    /\ DOMAIN updates \subseteq {"brand", "price_ceiling"}
    /\ Has(updates, "brand") =>
           /\ ~MemBrand(memory)
           /\ BrandInGoal(updates["brand"])
    /\ Has(updates, "price_ceiling") =>
           /\ ~MemPrice(memory)
           /\ PriceInGoal(updates["price_ceiling"])

\* C24: memory_updates contains only the keys brand and price_ceiling, and
\* contains a key only when the preference snapshot carries no value for it
\* and the value was inferred from the goal text: a preference already present
\* in the snapshot is never restated or replaced by a turn.
C24_OnlyInferredUpdates ==
    /\ OnlyInferredUpdates(StagedUpdates)
    /\ pc = "done" => OnlyInferredUpdates(final.memory_updates)

\* a turn whose snapshot holds a brand and whose goal names another brand and
\* a price returned the price alone
C24_Witness ==
    /\ pc = "done"
    /\ user_goal = Goal2
    /\ memory = [brand |-> Nike]
    /\ final.memory_updates = [price_ceiling |-> 3000]

(* ---- C25 --------------------------------------------------------- *)
\* a plan as _make_initial_plan builds it from the arguments of this call
FreshPlan(p) ==
    /\ p.retries = 0
    /\ \A i \in DOMAIN p.steps : p.steps[i].status = "pending"
    /\ DOMAIN p.data \subseteq {"memory_updates"}
    /\ \E updates \in _guess_preferences(Lower(user_goal), memory) :
           p = _make_initial_plan(user_goal, memory, updates)

\* the plan stage of every call builds a fresh plan and starts with an empty
\* trace, whatever the earlier calls did
StartsFresh ==
    pc = "start" =>
        /\ FreshPlan(plan')
        /\ trace' = << >> /\ tool_order' = << >> /\ iter' = 0
        /\ last_result' = EmptyDict /\ step_index' = -1

\* a call changes neither its arguments nor the Agent
ArgumentsKept ==
    /\ tools' = tools
    /\ max_steps' = max_steps
    /\ pc \notin {"done", "raised"} => memory' = memory /\ user_goal' = user_goal

\* C25: no turn state persists inside the core. Every Agent.run call on the
\* same Agent starts from a fresh plan with retries = 0, every step PENDING
\* and no data artifacts other than staged preference updates, whatever
\* earlier turns did (including a turn that used its refinement retry or ended
\* in error), and run modifies neither the preference snapshot passed in nor
\* the tool registry.
C25_NoStateAcrossTurns == [][StartsFresh /\ ArgumentsKept]_vars

\* the second call on an Agent whose first call used its retry and ended in
\* error used its own retry and returned without error
C25_Witness ==
    /\ turn = 2
    /\ earlier = [retried |-> TRUE, error |-> TRUE]
    /\ pc = "done"
    /\ plan.retries = 1
    /\ ~Has(plan.data, "error")
    /\ Len(trace) = 5

(* ---- C26 --------------------------------------------------------- *)
\* the answers of the FAQ handler (faq_chain) and of the SQL handler
\* (sql_chain), as the stubs of test_ask_routes_to_handlers return them
FaqChainAnswer == << "FAQ" >>
SqlChainAnswer == << "SQL" >>

\* an ask call has returned a response
AskReturned == pc = "idle" /\ asks > 0 /\ response # ExceptionLeft

\* C26: ask dispatches on the router's route name and returns the chosen
\* handler's response unchanged: the FAQ handler's answer for an FAQ route,
\* the SQL handler's answer for an SQL route, exactly the small-talk handler's
\* response for a small-talk route, and a text starting with "Route " for any
\* other route name.
C26_AskDispatch ==
    AskReturned =>
        /\ route = "faq" => response = FaqChainAnswer
        /\ route = "sql" => response = SqlChainAnswer
        /\ route = "small-talk" => response = talked
        /\ route = "unknown" => response # << >> /\ response[1] = "Route "

(* ------------------------------------------------------------------ *)
(* C30: reflecting on a result that carries an error field             *)
(* ------------------------------------------------------------------ *)
\* the Reflector is about to reflect on a result with an error field
ReflectingError == pc = "reflect" /\ Has(last_result, "error")

\* the executed step is completed and every other step keeps its status
OnlyExecutedStepCompleted ==
    /\ NumSteps(plan') = NumSteps(plan)
    /\ \A i \in 0..(NumSteps(plan) - 1) :
          plan'.steps[i] = IF i = action.index
                           THEN [plan.steps[i] EXCEPT !.status = "completed"]
                           ELSE plan.steps[i]

\* plan data gains the error and nothing else: no payload artifact, no
\* refinement flag, no no-matches flag
OnlyErrorRecorded ==
    /\ DOMAIN plan'.data = DOMAIN plan.data \cup {"error"}
    /\ plan'.data["error"] = last_result["error"]
    /\ \A k \in DOMAIN plan.data \ {"error"} : plan'.data[k] = plan.data[k]

\* retries and every other part of the plan are unchanged
RestOfPlanKept ==
    [plan' EXCEPT !.steps = plan.steps, !.data = plan.data] = plan

\* C30: when the reflected result carries an error field, the Reflector marks
\* the executed step COMPLETED, records the error in plan data and changes
\* nothing else: no payload is folded in and the sql_run refinement policy is
\* not applied even when the result also has an empty row list.
C30_ErrorReflection ==
    [][ReflectingError =>
            /\ OnlyExecutedStepCompleted
            /\ OnlyErrorRecorded
            /\ RestOfPlanKept]_vars

\* a sql_run result with an error field and an empty row list has been
\* reflected on while the retry budget was unspent
C30_Witness ==
    /\ pc = "check"
    /\ action.tool = "sql_run"
    /\ Has(last_result, "error")
    /\ Has(last_result, "rows")
    /\ last_result["rows"] = EmptyRows
    /\ plan.retries = 0
    /\ plan.steps[action.index].status = "completed"
    /\ plan.data["error"] = last_result["error"]

(* ------------------------------------------------------------------ *)
(* FAQ ingestion: ingest_faq_data of app/faq.py on one Chroma client   *)
(* ------------------------------------------------------------------ *)
\* largest number of data rows in the FAQ CSV file
MaxCsvRows == 2
\* largest number of ingest_faq_data calls made on one client
MaxIngests == 3

COLLECTION_NAME == << "faqs" >>

\* the cells of the CSV file; << >> is an empty cell
QuestionCells == { << "Q1" >>, << "Q2" >>, << >> }
AnswerCells == { << "A1" >>, << "A2" >> }
CsvRows == [question : QuestionCells, answer : AnswerCells]
CsvFiles == UNION { [1..n -> CsvRows] : n \in 0..MaxCsvRows }

\* df[col].astype(str) on a cell read by pd.read_csv: an empty cell is NaN,
\* whose string is "nan"
AsStr(cell) == IF cell = << >> THEN << "nan" >> ELSE cell

\* lines 51-53: the documents, metadata and ids built from the data frame
DocsOf(rows) ==
    [i \in 1..Len(rows) |->
        [id       |-> << "id_" >> \o Str(i - 1),
         document |-> AsStr(rows[i].question),
         metadata |-> [answer |-> AsStr(rows[i].answer)]]]

\* client.list_collections() as the list of names of line 45
list_collections(client) == DOMAIN client

\* client.get_or_create_collection(name)
get_or_create_collection(client, name) ==
    IF Has(client, name) THEN client ELSE Put(client, name, << >>)

\* collection.add(documents, metadatas, ids)
collection_add(client, name, docs) ==
    Put(client, name, client[name] \o docs)

\* a fresh client (chromadb.Client() or the test's DummyClient()) and a CSV file
InitIngest ==
    /\ pc = "off"
    /\ user_goal = << >>
    /\ memory = EmptyDict
    /\ tools = {}
    /\ max_steps = DefaultMaxSteps
    /\ plan = NoPlan
    /\ last_result = EmptyDict
    /\ step_index = 0
    /\ action = NoAction
    /\ iter = 0
    /\ trace = << >>
    /\ tool_order = << >>
    /\ calls = << >>
    /\ final = EmptyDict
    /\ turn = 1
    /\ earlier = NoEarlier
    /\ session_state = EmptyDict
    /\ asks = 0
    /\ route = NoRoute
    /\ talked = << >>
    /\ response = NoResponse
    /\ collections = EmptyDict
    /\ csv \in CsvFiles
    /\ ing_pc = "idle"
    /\ ingests = 0
    /\ ing_failed = FALSE
    /\ SqlOff

\* ingest_faq_data(path, client) is called
IngestCall ==
    /\ ing_pc = "idle"
    /\ ingests < MaxIngests
    /\ ingests' = ingests + 1
    /\ ing_pc' = "list"
    /\ UNCHANGED << agent_vars, sql_vars, collections, csv, ing_failed >>

\* the existence check that never skips
IngestCheck_AlwaysCreate ==
    /\ ing_pc = "list"
    /\ collections' = get_or_create_collection(collections, COLLECTION_NAME)
    /\ ing_pc' = "read"
    /\ UNCHANGED << agent_vars, sql_vars, csv, ingests, ing_failed >>

\* lines 45-49: return when the collection exists, else create it
IngestCheck ==
    /\ ing_pc = "list"
    /\ IF COLLECTION_NAME \in list_collections(collections)
       THEN /\ ing_pc' = "idle"
            /\ UNCHANGED collections
       ELSE /\ collections' = get_or_create_collection(collections, COLLECTION_NAME)
            /\ ing_pc' = "read"
    /\ UNCHANGED << agent_vars, sql_vars, csv, ingests, ing_failed >>

\* lines 50-53: pd.read_csv and the column reads return
IngestRead ==
    /\ ing_pc = "read"
    /\ ing_pc' = "add"
    /\ UNCHANGED << agent_vars, sql_vars, collections, csv, ingests, ing_failed >>

\* lines 50-53: pd.read_csv or a column read raises (file missing or
\* unreadable); the collection created at line 49 stays
IngestReadRaise ==
    /\ ing_pc = "read"
    /\ ing_pc' = "idle"
    /\ ing_failed' = TRUE
    /\ UNCHANGED << agent_vars, sql_vars, collections, csv, ingests >>

\* line 54: collection.add writes the documents and the call returns
IngestAdd ==
    /\ ing_pc = "add"
    /\ collections' = collection_add(collections, COLLECTION_NAME, DocsOf(csv))
    /\ ing_pc' = "idle"
    /\ UNCHANGED << agent_vars, sql_vars, csv, ingests, ing_failed >>

\* line 54 on a CSV without data rows: a Chroma collection rejects an empty
\* id list (the DummyCollection of the tests accepts it, as IngestAdd does)
IngestAddRaise ==
    /\ ing_pc = "add"
    /\ DocsOf(csv) = << >>
    /\ ing_pc' = "idle"
    /\ ing_failed' = TRUE
    /\ UNCHANGED << agent_vars, sql_vars, collections, csv, ingests >>

NextIngest ==
    \/ IngestCall
    \/ IngestCheck
    \/ IngestRead
    \/ IngestReadRaise
    \/ IngestAdd
    \/ IngestAddRaise

SpecIngest == InitIngest /\ [][NextIngest]_vars

(* ------------------------------------------------------------------ *)
(* C27: ingestion is idempotent                                        *)
(* ------------------------------------------------------------------ *)
\* some call has been made, every call so far returned without raising and
\* none is under way
OnlySuccessfulIngests == ing_pc = "idle" /\ ingests >= 1 /\ ~ing_failed

\* the collection holds each CSV row exactly once, under the id of its index
HoldsEachRowOnce ==
    /\ Has(collections, COLLECTION_NAME)
    /\ collections[COLLECTION_NAME] = DocsOf(csv)

\* a call that finds the collection writes nothing and returns
ExistingCollectionUntouched ==
    (ing_pc = "list" /\ Has(collections, COLLECTION_NAME))
        => (collections' = collections /\ ing_pc' = "idle")

\* C27: after any number of successful ingest_faq_data calls on the same
\* client and CSV the "faqs" collection holds each CSV row exactly once, and a
\* call made when the collection already exists writes nothing.
C27_IngestIdempotent ==
    /\ [](OnlySuccessfulIngests => HoldsEachRowOnce)
    /\ [][ExistingCollectionUntouched]_vars

\* three successful calls on a two-row CSV
C27_Witness ==
    /\ OnlySuccessfulIngests
    /\ ingests = 3
    /\ Len(csv) = 2
    /\ Len(collections[COLLECTION_NAME]) = 2

(* ------------------------------------------------------------------ *)
(* The sql_run tool of app/tools/sql_tool.py                           *)
(* ------------------------------------------------------------------ *)
\* str.upper()
Upper(s) == [i \in 1..Len(s) |-> UpperChar(s[i])]

\* length of the run of word characters that starts at position i
RECURSIVE WordRun(_, _)
WordRun(text, i) ==
    IF i > Len(text) \/ ~IsWordChar(text[i]) THEN 0 ELSE 1 + WordRun(text, i + 1)

\* str.rstrip(";")
RECURSIVE RStripSemicolons(_)
RStripSemicolons(s) ==
    IF s # << >> /\ s[Len(s)] = ";"
    THEN RStripSemicolons(SubSeq(s, 1, Len(s) - 1))
    ELSE s

ALLOWED_TABLES == {<<"p", "r", "o", "d", "u", "c", "t">>}
ALLOWED_COLUMNS ==
    {<<"p", "r", "o", "d", "u", "c", "t", "_", "l", "i", "n", "k">>,
     <<"t", "i", "t", "l", "e">>,
     <<"b", "r", "a", "n", "d">>,
     <<"p", "r", "i", "c", "e">>,
     <<"d", "i", "s", "c", "o", "u", "n", "t">>,
     <<"a", "v", "g", "_", "r", "a", "t", "i", "n", "g">>,
     <<"t", "o", "t", "a", "l", "_", "r", "a", "t", "i", "n", "g", "s">>}
RESERVED_TOKENS ==
    {<<"s", "e", "l", "e", "c", "t">>,
     <<"d", "i", "s", "t", "i", "n", "c", "t">>,
     <<"f", "r", "o", "m">>,
     <<"w", "h", "e", "r", "e">>,
     <<"a", "n", "d">>,
     <<"o", "r">>,
     <<"g", "r", "o", "u", "p">>,
     <<"b", "y">>,
     <<"o", "r", "d", "e", "r">>,
     <<"a", "s", "c">>,
     <<"d", "e", "s", "c">>,
     <<"l", "i", "m", "i", "t">>,
     <<"a", "s">>,
     <<"l", "i", "k", "e">>,
     <<"l", "o", "w", "e", "r">>,
     <<"u", "p", "p", "e", "r">>,
     <<"c", "o", "u", "n", "t">>,
     <<"a", "v", "g">>,
     <<"s", "u", "m">>,
     <<"m", "i", "n">>,
     <<"m", "a", "x">>,
     <<"c", "a", "s", "e">>,
     <<"w", "h", "e", "n">>,
     <<"t", "h", "e", "n">>,
     <<"e", "n", "d">>,
     <<"i", "n">>,
     <<"o", "n">>,
     <<"n", "o", "t">>,
     <<"b", "e", "t", "w", "e", "e", "n">>}
\* the tuple forbidden of _validate_sql_structure
forbidden ==
    {<<"U", "P", "D", "A", "T", "E">>,
     <<"I", "N", "S", "E", "R", "T">>,
     <<"D", "E", "L", "E", "T", "E">>,
     <<"D", "R", "O", "P">>,
     <<"A", "L", "T", "E", "R">>,
     <<"C", "R", "E", "A", "T", "E">>,
     <<"R", "E", "P", "L", "A", "C", "E">>,
     <<"A", "T", "T", "A", "C", "H">>,
     <<"D", "E", "T", "A", "C", "H">>}

KwSelect == <<"S", "E", "L", "E", "C", "T">>
KwFrom == <<"F", "R", "O", "M">>
KwJoin == <<"J", "O", "I", "N">>
KwLimit == <<"l", "i", "m", "i", "t">>
LimitClause == <<" ", "L", "I", "M", "I", "T", " ", "5", "0">>

\* the value of a validation that raised nothing
Passed == << "<passed>" >>

\* re.findall(r"\bKW\s+([a-zA-Z_][\w]*)", text) from position i on
RECURSIVE TablesAfter(_, _, _)
TablesAfter(text, kw, i) ==
    IF i > Len(text) THEN << >>
    ELSE LET j == i + Len(kw)
             k == j + SpaceRun(text, j)
         IN  IF /\ StartsAt(text, i, kw)
                /\ (i = 1 \/ ~IsWordChar(text[i - 1]))
                /\ k > j
                /\ k <= Len(text)
                /\ (IsLetter(text[k]) \/ text[k] = "_")
             THEN << SubSeq(text, k, k + WordRun(text, k) - 1) >>
                      \o TablesAfter(text, kw, k + WordRun(text, k))
             ELSE TablesAfter(text, kw, i + 1)

\* re.findall(r"[A-Za-z_][A-Za-z0-9_]*", text) from position i on
RECURSIVE Identifiers(_, _)
Identifiers(text, i) ==
    IF i > Len(text) THEN << >>
    ELSE IF IsLetter(text[i]) \/ text[i] = "_"
         THEN << SubSeq(text, i, i + WordRun(text, i) - 1) >>
                  \o Identifiers(text, i + WordRun(text, i))
         ELSE Identifiers(text, i + 1)

\* where the match of r"SELECT\s+(.*?)\s+FROM" that starts at i has its FROM
\* (0 when there is no match at i): the white space after SELECT is taken
\* greedily, the group lazily, and only when that fails is white space given
\* back, which leaves an empty group
ClauseEnd(up, i) ==
    LET g == i + 6 + SpaceRun(up, i + 6)
        later == {f \in (g + 1)..Len(up) : IsSpace(up[f - 1]) /\ StartsAt(up, f, KwFrom)}
    IN  IF ~StartsAt(up, i, KwSelect) \/ SpaceRun(up, i + 6) = 0 THEN 0
        ELSE IF later # {} THEN Min(later)
        ELSE IF SpaceRun(up, i + 6) >= 2 /\ StartsAt(up, g, KwFrom) THEN g
        ELSE 0

\* lines 151-154: match.group(1).strip(), or None when there is no match
ColumnExpr(sql) ==
    LET up == Upper(sql)
        starts == {i \in 1..Len(up) : ClauseEnd(up, i) # 0}
    IN  IF starts = {} THEN None
        ELSE LET i == Min(starts)
                 g == i + 6 + SpaceRun(up, i + 6)
                 f == ClauseEnd(up, i)
             IN  IF f <= g THEN << >> ELSE Strip(SubSeq(sql, g, f - 2))

\* lines 135-167: the message of the ValueError raised, or Passed
_validate_sql_structure(sql) ==
    LET upper_sql == Upper(sql)
        tables == TablesAfter(upper_sql, KwFrom, 1) \o TablesAfter(upper_sql, KwJoin, 1)
        badTables == {i \in 1..Len(tables) : Lower(tables[i]) \notin ALLOWED_TABLES}
        column_expr == ColumnExpr(sql)
        tokens == Identifiers(column_expr, 1)
        badTokens == {i \in 1..Len(tokens) :
                        Lower(tokens[i]) \notin
                            (RESERVED_TOKENS \cup ALLOWED_TABLES \cup ALLOWED_COLUMNS)}
    IN  IF ~StartsAt(Strip(upper_sql), 1, KwSelect)
        THEN << "Only SELECT statements are allowed." >>
        ELSE IF \E keyword \in forbidden : Contains(upper_sql, keyword)
        THEN << "Only read-only SELECT statements are permitted." >>
        ELSE IF badTables # {}
        THEN << "Table '" >> \o tables[Min(badTables)] \o << "' is not allowed." >>
        ELSE IF column_expr = None
        THEN << "Malformed SELECT statement." >>
        ELSE IF column_expr = << "*" >>
        THEN Passed
        ELSE IF badTokens # {}
        THEN << "Column '" >> \o tokens[Min(badTokens)] \o << "' is not allowed." >>
        ELSE Passed

\* lines 126-132
_ensure_limit(sql) ==
    LET low == Lower(sql)
        stripped == RStripSemicolons(Strip(sql))
        suffix == IF Strip(sql) # << >> /\ Strip(sql)[Len(Strip(sql))] = ";"
                  THEN << ";" >> ELSE << >>
    IN  IF \E i \in 1..Len(low) :
              /\ StartsAt(low, i, KwLimit)
              /\ (i = 1 \/ ~IsWordChar(low[i - 1]))
              /\ (i + 5 > Len(low) \/ ~IsWordChar(low[i + 5]))
        THEN sql
        ELSE stripped \o LimitClause \o suffix

\* statements handed to the SQL functions, each with the tables it names
\* SELECT * FROM product
Stmt1 ==
    [text |-> <<"S", "E", "L", "E", "C", "T", " ", "*", " ", "F", "R", "O", "M", " ", "p", "r", "o", "d", "u", "c", "t">>,
     tables |-> {<<"p", "r", "o", "d", "u", "c", "t">>}]
\* UPDATE product SET price = 0
Stmt2 ==
    [text |-> <<"U", "P", "D", "A", "T", "E", " ", "p", "r", "o", "d", "u", "c", "t", " ", "S", "E", "T", " ", "p", "r", "i", "c", "e", " ", "=", " ", "0">>,
     tables |-> {<<"p", "r", "o", "d", "u", "c", "t">>}]
\* SELECT * FROM product; DROP TABLE product
Stmt3 ==
    [text |-> <<"S", "E", "L", "E", "C", "T", " ", "*", " ", "F", "R", "O", "M", " ", "p", "r", "o", "d", "u", "c", "t", ";", " ", "D", "R", "O", "P", " ", "T", "A", "B", "L", "E", " ", "p", "r", "o", "d", "u", "c", "t">>,
     tables |-> {<<"p", "r", "o", "d", "u", "c", "t">>}]
\* SELECT * FROM users
Stmt4 ==
    [text |-> <<"S", "E", "L", "E", "C", "T", " ", "*", " ", "F", "R", "O", "M", " ", "u", "s", "e", "r", "s">>,
     tables |-> {<<"u", "s", "e", "r", "s">>}]
\* SELECT * FROM product, users
Stmt5 ==
    [text |-> <<"S", "E", "L", "E", "C", "T", " ", "*", " ", "F", "R", "O", "M", " ", "p", "r", "o", "d", "u", "c", "t", ",", " ", "u", "s", "e", "r", "s">>,
     tables |-> {<<"p", "r", "o", "d", "u", "c", "t">>, <<"u", "s", "e", "r", "s">>}]
\* SELECT * FROM "users"
Stmt6 ==
    [text |-> <<"S", "E", "L", "E", "C", "T", " ", "*", " ", "F", "R", "O", "M", " ", "\"", "u", "s", "e", "r", "s", "\"">>,
     tables |-> {<<"u", "s", "e", "r", "s">>}]
\* select title from product limit 5;
Stmt7 ==
    [text |-> <<"s", "e", "l", "e", "c", "t", " ", "t", "i", "t", "l", "e", " ", "f", "r", "o", "m", " ", "p", "r", "o", "d", "u", "c", "t", " ", "l", "i", "m", "i", "t", " ", "5", ";">>,
     tables |-> {<<"p", "r", "o", "d", "u", "c", "t">>}]
\* SELECT password FROM product
Stmt8 ==
    [text |-> <<"S", "E", "L", "E", "C", "T", " ", "p", "a", "s", "s", "w", "o", "r", "d", " ", "F", "R", "O", "M", " ", "p", "r", "o", "d", "u", "c", "t">>,
     tables |-> {<<"p", "r", "o", "d", "u", "c", "t">>}]
\* SELECT 1
Stmt9 ==
    [text |-> <<"S", "E", "L", "E", "C", "T", " ", "1">>,
     tables |-> {}]
\* SELECT * FROM product JOIN users
Stmt10 ==
    [text |-> <<"S", "E", "L", "E", "C", "T", " ", "*", " ", "F", "R", "O", "M", " ", "p", "r", "o", "d", "u", "c", "t", " ", "J", "O", "I", "N", " ", "u", "s", "e", "r", "s">>,
     tables |-> {<<"p", "r", "o", "d", "u", "c", "t">>, <<"u", "s", "e", "r", "s">>}]
\* SELECT title, price FROM product;
Stmt11 ==
    [text |-> <<"S", "E", "L", "E", "C", "T", " ", "t", "i", "t", "l", "e", ",", " ", "p", "r", "i", "c", "e", " ", "F", "R", "O", "M", " ", "p", "r", "o", "d", "u", "c", "t", ";">>,
     tables |-> {<<"p", "r", "o", "d", "u", "c", "t">>}]
\* SELECT * FROM(users)
Stmt12 ==
    [text |-> <<"S", "E", "L", "E", "C", "T", " ", "*", " ", "F", "R", "O", "M", "(", "u", "s", "e", "r", "s", ")">>,
     tables |-> {<<"u", "s", "e", "r", "s">>}]
\* DELETE FROM product
Stmt13 ==
    [text |-> <<"D", "E", "L", "E", "T", "E", " ", "F", "R", "O", "M", " ", "p", "r", "o", "d", "u", "c", "t">>,
     tables |-> {<<"p", "r", "o", "d", "u", "c", "t">>}]
Statements == {Stmt1, Stmt2, Stmt3, Stmt4, Stmt5, Stmt6, Stmt7, Stmt8, Stmt9, Stmt10, Stmt11, Stmt12, Stmt13}

KwDelete == <<"D", "E", "L", "E", "T", "E">>
KwUpdate == <<"U", "P", "D", "A", "T", "E">>

\* the product table, one price per row, after sqlite3 has executed the
\* statement: a DELETE without a condition empties it, the UPDATE of the model
\* sets every price to 0, a SELECT leaves it alone
Apply(database, text) ==
    IF StartsAt(Upper(Strip(text)), 1, KwDelete) THEN << >>
    ELSE IF StartsAt(Upper(Strip(text)), 1, KwUpdate)
    THEN [i \in 1..Len(database) |-> 0]
    ELSE database

\* the payload a generator returns for a statement: "<SQL>" + text + "</SQL>"
Wrap(text) == << "<", "S", "Q", "L", ">" >> \o text \o << "<", "/", "S", "Q", "L", ">" >>

\* the message of an exception raised by sqlite3 (no such table, syntax error)
SqliteError == << "sqlite3.OperationalError" >>

\* product tables of up to MaxRows rows, one price per row
Databases == { Items(n) : n \in 0..MaxRows }

\* the agent of build_agent with the sql_run of sql_tool.py registered and a
\* generator that returns the statements of the model
InitSqlRun ==
    /\ pc = "start"
    /\ user_goal \in Goals
    /\ memory \in Memories
    /\ tools = ToolNames
    /\ max_steps = DefaultMaxSteps
    /\ plan = NoPlan
    /\ last_result = EmptyDict
    /\ step_index = 0
    /\ action = NoAction
    /\ iter = 0
    /\ trace = << >>
    /\ tool_order = << >>
    /\ calls = << >>
    /\ final = EmptyDict
    /\ turn = 1
    /\ earlier = NoEarlier
    /\ session_state = EmptyDict
    /\ asks = 0
    /\ route = NoRoute
    /\ talked = << >>
    /\ response = NoResponse
    /\ IngestOff
    /\ sq_pc = "idle"
    /\ stmt = << >>
    /\ db \in Databases
    /\ executed = << >>
    /\ sq_out = EmptyDict
    /\ verbalised = << >>

\* a tool other than the two SQL tools does what the tool invoker allows
ExecuteOther ==
    /\ action.tool \notin {"sql_generate", "sql_run"}
    /\ Execute

\* sql_generate returns a statement between SQL tags
ExecuteGenerate ==
    /\ pc = "execute"
    /\ action.tool = "sql_generate"
    /\ \E s \in Statements :
          ExecuteWith([kind |-> "return", value |-> [sql_wrapped |-> Wrap(s.text)]])
    /\ UNCHANGED outer

\* line 91 of agent.py calls sql_run(sql=...)
SqlRunCall ==
    /\ pc = "execute"
    /\ action.tool = "sql_run"
    /\ sq_pc = "idle"
    /\ stmt' = action.args["sql"]
    /\ sq_pc' = "validate"
    /\ sq_out' = EmptyDict
    /\ UNCHANGED << agent_vars, faq_vars, db, executed, verbalised >>

\* line 194: _validate_sql_structure returns or raises
SqlRunValidate ==
    /\ sq_pc = "validate"
    /\ LET v == _validate_sql_structure(stmt)
       IN  IF v = Passed
           THEN /\ sq_pc' = "run"
                /\ UNCHANGED sq_out
           ELSE /\ sq_pc' = "returned"
                /\ sq_out' = [kind |-> "raise", value |-> [error |-> v], by |-> "validation"]
    /\ UNCHANGED << agent_vars, faq_vars, stmt, db, executed, verbalised >>

\* lines 195-200: the limited statement is executed and its rows are returned
SqlRunExecute ==
    /\ sq_pc = "run"
    /\ executed' = Append(executed, _ensure_limit(stmt))
    /\ db' = Apply(db, _ensure_limit(stmt))
    /\ \E n \in 0..Len(db') :
          sq_out' = [kind |-> "return",
                     value |-> [rows |-> RowsList(n), columns |-> << "title" >>],
                     by |-> "database"]
    /\ sq_pc' = "returned"
    /\ UNCHANGED << agent_vars, faq_vars, stmt, verbalised >>

\* lines 170-178: sqlite3 raises while executing the limited statement
SqlRunExecuteRaise ==
    /\ sq_pc = "run"
    /\ executed' = Append(executed, _ensure_limit(stmt))
    /\ sq_out' = [kind |-> "raise", value |-> [error |-> SqliteError], by |-> "database"]
    /\ db' = Apply(db, _ensure_limit(stmt))
    /\ sq_pc' = "returned"
    /\ UNCHANGED << agent_vars, faq_vars, stmt, verbalised >>

\* lines 92-99 of agent.py: the agent observes what sql_run did
SqlRunObserved ==
    /\ pc = "execute"
    /\ action.tool = "sql_run"
    /\ sq_pc = "returned"
    /\ ExecuteWith(sq_out)
    /\ sq_pc' = "idle"
    /\ UNCHANGED << turn, earlier, session_state, asks, route, talked, response,
                    faq_vars, stmt, db, executed, sq_out, verbalised >>

NextSqlRun ==
    \/ Plan
    \/ ClarifyReturn
    \/ ChooseAction
    \/ ExecuteOther
    \/ ExecuteGenerate
    \/ SqlRunCall
    \/ SqlRunValidate
    \/ SqlRunExecute
    \/ SqlRunExecuteRaise
    \/ SqlRunObserved
    \/ Reflect
    \/ CheckStop
    \/ FinalizeReturn

SpecSqlRun == InitSqlRun /\ [][NextSqlRun]_vars

(* ------------------------------------------------------------------ *)
(* C28: sql_run validates before it touches the database               *)
(* ------------------------------------------------------------------ *)
\* the tables named by a statement of the model
NamedTables(text) ==
    UNION { s.tables : s \in { x \in Statements : Strip(x.text) = Strip(text) } }

\* the statement does not begin with SELECT, contains a write/DDL keyword or
\* names a table other than product
MustBeRejected(text) ==
    \/ ~StartsAt(Upper(Strip(text)), 1, KwSelect)
    \/ \E keyword \in forbidden : Contains(Upper(text), keyword)
    \/ ~(NamedTables(text) \subseteq ALLOWED_TABLES)

\* a statement reaches the database only from the step after validation, and
\* only when validation passed
ExecutedOnlyAfterValidation ==
    executed' # executed =>
        /\ sq_pc = "run"
        /\ _validate_sql_structure(stmt) = Passed
        /\ executed' = Append(executed, _ensure_limit(stmt))

\* a statement that must be rejected raises and never reaches the database
RejectedBeforeAccess ==
    /\ (sq_pc = "validate" /\ MustBeRejected(stmt)) =>
          /\ sq_pc' = "returned"
          /\ sq_out'.kind = "raise"
          /\ sq_out'.by = "validation"
          /\ executed' = executed
    /\ executed' # executed => ~MustBeRejected(stmt)

\* sql_run has handed a rejection to the agent
RejectionObserved ==
    /\ sq_pc = "idle"
    /\ sq_out # EmptyDict
    /\ sq_out.by = "validation"

\* after a rejection no further tool is invoked in the turn
RejectionEndsTurn == RejectionObserved => tool_order' = tool_order

\* the final text carries the rejection message and the trace entry of sql_run
\* is marked not-ok
RejectionReported ==
    (RejectionObserved /\ pc = "done") =>
        /\ final["text"] = << "Sorry, something went wrong: " >>
                              \o sq_out.value.error
                              \o << "\n" >> \o _format_trace(tool_order)
        /\ trace[Len(trace)].tool = "sql_run"
        /\ ~trace[Len(trace)].ok

\* C28 (first half): sql_run executes a statement against the database only
\* after validation has passed.
C28_ValidatedBeforeAccess == [][ExecutedOnlyAfterValidation]_vars

\* C28 (wired half): a rejection by sql_run ends the turn with the rejection
\* message in the final text and the sql_run trace entry marked not-ok.
C28_RejectionWired ==
    /\ [][RejectionEndsTurn]_vars
    /\ [](RejectionReported)

\* C28: the sql_run tool executes a statement against the database only after
\* validation has passed: a statement that does not begin with SELECT,
\* contains a write/DDL keyword, or names a table other than product raises
\* before any database access, and, wired into the agent, such a rejection
\* ends the turn with the rejection message in the final text and the sql_run
\* trace entry marked not-ok.
C28_SqlRunGuards ==
    /\ [][ExecutedOnlyAfterValidation /\ RejectedBeforeAccess /\ RejectionEndsTurn]_vars
    /\ [](RejectionReported)

\* a statement naming the table users next to product has been executed
C28_OtherTableExecuted ==
    /\ executed # << >>
    /\ \E i \in 1..Len(executed) : executed[i] = _ensure_limit(Stmt5.text)

\* a turn has ended on a rejection by sql_run
C28_RejectionWitness == RejectionObserved /\ pc = "done"

(* ------------------------------------------------------------------ *)
(* run_query and sql_chain of app/sql.py                               *)
(* ------------------------------------------------------------------ *)
\* largest number of statements executed by the calls of one behaviour
MaxQueries == 2

NoSqlMessage == << "Sorry, the model could not generate a SQL query for your question." >>
ProblemMessage == << "Sorry, there was a problem executing the SQL query." >>

\* " select title from product"
Stmt7Padded == << " " >> \o SubSeq(Stmt7.text, 1, 25)

\* what generate_sql_query may return: a statement between tags, text without
\* tags, empty tags, or no content
ChainPayloads == { Wrap(s.text) : s \in Statements } \cup {Payload3, Payload4, None}

\* the statements run_query is called with directly
DirectStatements == { s.text : s \in Statements } \cup {Stmt7Padded, << >>}

\* lines 98-110: the first tagged statement, stripped, or None
_extract_sql_tagged(text) ==
    LET low == Lower(text)
        opens == {i \in 1..Len(low) : StartsAt(low, i, OpenMarker)}
    IN  IF opens = {} THEN None
        ELSE LET i == Min(opens)
                 closes == {j \in (i + Len(OpenMarker))..Len(low) :
                                StartsAt(low, j, CloseMarker)}
             IN  IF closes = {} THEN None
                 ELSE Strip(SubSeq(text, i + Len(OpenMarker), Min(closes) - 1))

\* a guard that lets every statement through
IsSelectStatement_Unguarded(sql) == sql = sql

\* line 127: sql.strip().upper().startswith("SELECT")
IsSelectStatement(sql) == StartsAt(Upper(Strip(sql)), 1, KwSelect)

\* a database and no call under way
InitSqlChain ==
    /\ pc = "off"
    /\ user_goal = << >>
    /\ memory = EmptyDict
    /\ tools = {}
    /\ max_steps = DefaultMaxSteps
    /\ plan = NoPlan
    /\ last_result = EmptyDict
    /\ step_index = 0
    /\ action = NoAction
    /\ iter = 0
    /\ trace = << >>
    /\ tool_order = << >>
    /\ calls = << >>
    /\ final = EmptyDict
    /\ turn = 1
    /\ earlier = NoEarlier
    /\ session_state = EmptyDict
    /\ asks = 0
    /\ route = NoRoute
    /\ talked = << >>
    /\ response = NoResponse
    /\ IngestOff
    /\ sq_pc = "idle"
    /\ stmt = << >>
    /\ db \in Databases
    /\ executed = << >>
    /\ sq_out = EmptyDict
    /\ verbalised = << >>

\* sql_chain(question) is called
ChainCall ==
    /\ sq_pc = "idle"
    /\ Len(executed) < MaxQueries
    /\ sq_pc' = "generate"
    /\ stmt' = << >>
    /\ sq_out' = EmptyDict
    /\ verbalised' = << >>
    /\ UNCHANGED << agent_vars, faq_vars, db, executed >>

\* lines 179-182: generate, extract, and return when nothing was extracted
ChainGenerate ==
    /\ sq_pc = "generate"
    /\ \E w \in ChainPayloads \ {None} :
          LET extracted == _extract_sql_tagged(w)
          IN  IF ~Truthy(extracted)
              THEN /\ sq_out' = [kind |-> "return", what |-> "text", value |-> NoSqlMessage]
                   /\ sq_pc' = "idle"
                   /\ UNCHANGED stmt
              ELSE /\ stmt' = extracted
                   /\ sq_pc' = "query"
                   /\ UNCHANGED sq_out
    /\ UNCHANGED << agent_vars, faq_vars, db, executed, verbalised >>

\* lines 179-180: the generator raises, or returns no content and re.findall
\* raises TypeError
ChainGenerateRaise ==
    /\ sq_pc = "generate"
    /\ sq_out' = [kind |-> "raise", what |-> "error", value |-> ExceptionLeft]
    /\ sq_pc' = "idle"
    /\ UNCHANGED << agent_vars, faq_vars, stmt, db, executed, verbalised >>

\* run_query(sql) is called on its own (test_run_query_select_only)
RunQueryCall ==
    /\ sq_pc = "idle"
    /\ Len(executed) < MaxQueries
    /\ stmt' \in DirectStatements
    /\ sq_pc' = "direct"
    /\ sq_out' = EmptyDict
    /\ verbalised' = << >>
    /\ UNCHANGED << agent_vars, faq_vars, db, executed >>

\* lines 127-128: a statement that is not a SELECT gives None
RunQueryNone ==
    /\ sq_pc \in {"query", "direct"}
    /\ ~IsSelectStatement(stmt)
    /\ sq_out' = [kind |-> "return", what |-> "None", value |-> None]
    /\ sq_pc' = IF sq_pc = "query" THEN "queried" ELSE "idle"
    /\ UNCHANGED << agent_vars, faq_vars, stmt, db, executed, verbalised >>

\* lines 129-131: pandas executes the statement and returns a data frame
RunQueryExecute ==
    /\ sq_pc \in {"query", "direct"}
    /\ IsSelectStatement(stmt)
    /\ executed' = Append(executed, stmt)
    /\ db' = Apply(db, stmt)
    /\ \E n \in 0..Len(db') :
          sq_out' = [kind |-> "return", what |-> "frame", value |-> RowsList(n)]
    /\ sq_pc' = IF sq_pc = "query" THEN "queried" ELSE "idle"
    /\ UNCHANGED << agent_vars, faq_vars, stmt, verbalised >>

\* lines 129-131: pandas raises while executing the statement
RunQueryRaise ==
    /\ sq_pc \in {"query", "direct"}
    /\ IsSelectStatement(stmt)
    /\ executed' = Append(executed, stmt)
    /\ db' = Apply(db, stmt)
    /\ sq_out' = [kind |-> "raise", what |-> "error", value |-> SqliteError]
    /\ sq_pc' = "idle"
    /\ UNCHANGED << agent_vars, faq_vars, stmt, verbalised >>

\* lines 183-184: run_query gave None
ChainProblem ==
    /\ sq_pc = "queried"
    /\ sq_out.what = "None"
    /\ sq_out' = [kind |-> "return", what |-> "text", value |-> ProblemMessage]
    /\ sq_pc' = "idle"
    /\ UNCHANGED << agent_vars, faq_vars, stmt, db, executed, verbalised >>

\* lines 185-186: the rows go to data_comprehension, whose text is returned
ChainVerbalize ==
    /\ sq_pc = "queried"
    /\ sq_out.what # "None"
    /\ verbalised' = Append(verbalised, sq_out.value)
    /\ \E t \in Texts : sq_out' = [kind |-> "return", what |-> "text", value |-> t]
    /\ sq_pc' = "idle"
    /\ UNCHANGED << agent_vars, faq_vars, stmt, db, executed >>

\* line 186: data_comprehension raises
ChainVerbalizeRaise ==
    /\ sq_pc = "queried"
    /\ sq_out.what # "None"
    /\ verbalised' = Append(verbalised, sq_out.value)
    /\ sq_out' = [kind |-> "raise", what |-> "error", value |-> ExceptionLeft]
    /\ sq_pc' = "idle"
    /\ UNCHANGED << agent_vars, faq_vars, stmt, db, executed >>

NextSqlChain ==
    \/ ChainCall
    \/ ChainGenerate
    \/ ChainGenerateRaise
    \/ RunQueryCall
    \/ RunQueryNone
    \/ RunQueryExecute
    \/ RunQueryRaise
    \/ ChainProblem
    \/ ChainVerbalize
    \/ ChainVerbalizeRaise

SpecSqlChain == InitSqlChain /\ [][NextSqlChain]_vars

(* ------------------------------------------------------------------ *)
(* C29: run_query executes SELECT statements only                      *)
(* ------------------------------------------------------------------ *)
\* run_query is looking at a statement that does not begin with SELECT
\* (case-insensitive, after trimming)
QueryingNonSelect ==
    /\ sq_pc \in {"query", "direct"}
    /\ ~StartsAt(Upper(Strip(stmt)), 1, KwSelect)

\* run_query returns None, executes nothing and leaves the database as it was
NoneAndUntouched ==
    /\ sq_out'.kind = "return"
    /\ sq_out'.what = "None"
    /\ executed' = executed
    /\ db' = db

\* every statement that reached the database begins with SELECT
OnlySelectExecuted ==
    \A i \in 1..Len(executed) : StartsAt(Upper(Strip(executed[i])), 1, KwSelect)

\* sql_chain holds the None that run_query returned
ChainHoldsNone == sq_pc = "queried" /\ sq_out.what = "None"

\* sql_chain returns the fixed message and has not called the verbaliser
ProblemWithoutVerbaliser ==
    /\ sq_pc' = "idle"
    /\ sq_out'.kind = "return"
    /\ sq_out'.what = "text"
    /\ sq_out'.value = ProblemMessage
    /\ verbalised' = << >>
    /\ executed' = executed
    /\ db' = db

\* C29: run_query never executes a statement that does not begin with SELECT
\* (case-insensitive, after trimming): for such a statement it returns None
\* and the database is left unchanged, and sql_chain then returns the fixed
\* "problem executing the SQL query" message without calling the verbaliser.
C29_SelectOnly ==
    /\ []OnlySelectExecuted
    /\ [][QueryingNonSelect => NoneAndUntouched]_vars
    /\ [][(QueryingNonSelect /\ sq_pc = "query") => ChainHoldsNone']_vars
    /\ [][ChainHoldsNone => ProblemWithoutVerbaliser]_vars

\* sql_chain has returned the fixed message for a generated DELETE statement,
\* with the table as it was and the verbaliser not called
C29_Witness ==
    /\ sq_pc = "idle"
    /\ stmt = Stmt13.text
    /\ sq_out # EmptyDict
    /\ sq_out.what = "text"
    /\ sq_out.value = ProblemMessage
    /\ verbalised = << >>
    /\ executed = << >>
    /\ Len(db) = 2

(* ------------------------------------------------------------------ *)
(* C31: clarification needs and executed steps exclude each other      *)
(* ------------------------------------------------------------------ *)
\* the plan lists at least one missing prerequisite
NeedsClarification == plan.needs_clarification # << >>

\* no tool has been invoked and every step is still pending
NoStepRan ==
    /\ trace = << >>
    /\ tool_order = << >>
    /\ calls = << >>
    /\ \A i \in 0..(NumSteps(plan) - 1) : plan.steps[i].status = "pending"

\* a turn on a FAQ plan has returned after invoking faq_search first
FaqSearchFirst ==
    /\ tool_order # << >>
    /\ tool_order[1] = "faq_search"
    /\ trace[1].tool = "faq_search"

\* C31: needs_clarification is non-empty only in turns where no step ever
\* runs: with a prerequisite missing no tool is invoked and every step is
\* still PENDING when run returns; FAQ plans never have clarification needs
\* and always invoke faq_search first.
C31_ClarificationOrSteps ==
    /\ NeedsClarification => NoStepRan
    /\ (NeedsClarification /\ pc = "done") => final["plan"] = plan
    /\ plan.type = "faq" => ~NeedsClarification
    /\ (plan.type = "faq" /\ pc = "done") => FaqSearchFirst

\* run has returned with only the budget missing and nothing executed
C31_Witness ==
    /\ pc = "done"
    /\ plan.needs_clarification = << "budget ceiling" >>
    /\ NoStepRan
    /\ NumSteps(plan) = 3

(* ------------------------------------------------------------------ *)
(* C32: tools are invoked in plan order                                *)
(* ------------------------------------------------------------------ *)
\* record i of the trace is for tool name and directly follows one for before
Follows(i, name, before) ==
    trace[i].tool = name => (i > 1 /\ trace[i - 1].tool = before)

\* C32: in every trace the first record is the plan's first step (faq_search
\* or sql_generate), every faq_answer record is immediately preceded by a
\* faq_search record, every sql_run record by a sql_generate record and every
\* verbalize record by a sql_run record.
C32_PlanOrder ==
    /\ trace # << >> =>
          /\ trace[1].tool = plan.steps[0].tool
          /\ trace[1].tool \in {"faq_search", "sql_generate"}
    /\ \A i \in 1..Len(trace) :
          /\ Follows(i, "faq_answer", "faq_search")
          /\ Follows(i, "sql_run", "sql_generate")
          /\ Follows(i, "verbalize", "sql_run")

\* a turn with a refinement retry has run all three data-query tools, the
\* second sql_generate directly after the first sql_run
C32_Witness ==
    /\ pc = "done"
    /\ Len(trace) = 5
    /\ trace[3].tool = "sql_generate"
    /\ trace[5].tool = "verbalize"

(* ------------------------------------------------------------------ *)
(* C33: no step is left in progress when run returns                   *)
(* ------------------------------------------------------------------ *)
\* the step a trace record was selected for is completed, or was set back to
\* pending by the refinement policy
SelectedStepSettled(record) ==
    \A i \in 0..(NumSteps(plan) - 1) :
        plan.steps[i].tool = record.tool =>
            \/ plan.steps[i].status = "completed"
            \/ /\ plan.steps[i].status = "pending"
               /\ plan.retries > 0
               /\ record.tool \in SqlStepTools

\* C33: when Agent.run returns, no step of the returned plan has status
\* IN_PROGRESS: every step that was selected has been marked COMPLETED by the
\* Reflector (or reset to PENDING by the refinement policy), including steps
\* whose tool failed or was not registered.
C33_NoStepInProgress ==
    pc = "done" =>
        /\ \A i \in 0..(NumSteps(final["plan"]) - 1) :
              final["plan"].steps[i].status # "in_progress"
        /\ final["plan"] = plan
        /\ \A k \in 1..Len(trace) : SelectedStepSettled(trace[k])

\* run has returned after a tool that was not registered and after a tool
\* that raised, both steps completed
C33_Witness ==
    /\ pc = "done"
    /\ Len(calls) = 2
    /\ calls[1].kind = "raise"
    /\ calls[2].kind = "unregistered"
    /\ plan.steps[0].status = "completed"
    /\ plan.steps[1].status = "completed"

(* ------------------------------------------------------------------ *)
(* C34: verbalize only after a sql_run that returned rows              *)
(* ------------------------------------------------------------------ *)
\* every tool failure of the turn carries a non-empty error message
FailuresHaveMessages ==
    \A i \in 1..Len(calls) :
        Has(calls[i].result, "error") => Truthy(calls[i].result["error"])

\* every sql_run result of the turn that is not a failure carries a list of rows
RunResultsHaveRowLists ==
    \A i \in 1..Len(calls) :
        (calls[i].tool = "sql_run" /\ ~Has(calls[i].result, "error")) =>
            /\ Has(calls[i].result, "rows")
            /\ calls[i].result["rows"].type = "list"

\* invocation i is a verbalize whose most recent sql_run returned at least one
\* row, and those rows are the data it is invoked with
VerbalizeAfterRows(i) ==
    LET runs == {j \in 1..(i - 1) : calls[j].tool = "sql_run"}
    IN  /\ runs # {}
        /\ RunReturnedRows(calls[Max(runs)])
        /\ trace[i].args["data"] = calls[Max(runs)].result["rows"]
        /\ trace[i].args["data"].items # << >>

\* C34: provided every tool failure carries a non-empty error message and
\* sql_run results carry a list of rows, verbalize is invoked only when the
\* most recent sql_run of the turn succeeded with at least one row; it is never
\* invoked with an empty data list, after a failed sql_run or after an empty
\* result.
C34_VerbalizeGuard ==
    (FailuresHaveMessages /\ RunResultsHaveRowLists) =>
        \A i \in 1..Len(calls) : calls[i].tool = "verbalize" => VerbalizeAfterRows(i)

\* verbalize has been invoked on the rows of the second sql_run, the first
\* having returned an empty list
C34_Witness ==
    /\ FailuresHaveMessages
    /\ RunResultsHaveRowLists
    /\ Len(calls) = 5
    /\ calls[5].tool = "verbalize"
    /\ RunReturnedEmpty(calls[2])
    /\ VerbalizeAfterRows(5)

(* ------------------------------------------------------------------ *)
(* C35: a prerequisite asked for is not one just inferred              *)
(* ------------------------------------------------------------------ *)
\* C35: whenever a DATA_QUERY turn lists a prerequisite in
\* needs_clarification, the same turn's memory_updates holds no value for the
\* corresponding preference: "preferred brand" is requested only if
\* memory_updates has no brand, and "budget ceiling" only if memory_updates has
\* no price_ceiling.
C35_AskedNotInferred ==
    SqlTurn =>
        /\ Needs("preferred brand") => ~Has(StagedUpdates, "brand")
        /\ Needs("budget ceiling") => ~Has(StagedUpdates, "price_ceiling")

\* the brand half of C35 on its own
C35_BrandHalf ==
    SqlTurn => (Needs("preferred brand") => ~Has(StagedUpdates, "brand"))

\* a turn has returned the clarification question for the budget while a price
\* ceiling is staged
C35_AskedAndInferred ==
    /\ pc = "done"
    /\ Needs("budget ceiling")
    /\ Has(StagedUpdates, "price_ceiling")
    /\ final["memory_updates"] = StagedUpdates

(* ------------------------------------------------------------------ *)
(* C36: a stored preference is never changed                           *)
(* ------------------------------------------------------------------ *)
\* the memory store of the session
Store(st) == Get(st, "agent_memory", EmptyDict)

\* the store holds a brand, and holds the same brand after the step
BrandKept ==
    (Has(Store(session_state), "brand") /\ Store(session_state)["brand"] # << >>) =>
        /\ Has(Store(session_state'), "brand")
        /\ Store(session_state')["brand"] = Store(session_state)["brand"]

\* the store holds a non-zero price ceiling, and holds the same after the step
PriceCeilingKept ==
    (Has(Store(session_state), "price_ceiling")
        /\ Store(session_state)["price_ceiling"] # 0) =>
        /\ Has(Store(session_state'), "price_ceiling")
        /\ Store(session_state')["price_ceiling"] = Store(session_state)["price_ceiling"]

\* a step of a small-talk turn leaves the store as it is
SmallTalkKeepsStore ==
    (pc = "talk" \/ pc' = "talk") => Store(session_state') = Store(session_state)

\* C36: across any sequence of ask calls in one session a preference once
\* stored is never changed: after the memory store holds a brand (resp. a
\* non-zero price_ceiling) no later turn, whatever its goal mentions,
\* overwrites or removes that value, and small-talk turns never write to the
\* store.
C36_StoredPreferenceKept ==
    [][BrandKept /\ PriceCeilingKept /\ SmallTalkKeepsStore]_vars

\* with Puma and 3000 in the store, a later agent turn whose goal names Adidas
\* has returned and the store still holds Puma and 3000
C36_Witness ==
    /\ pc = "idle"
    /\ asks >= 2
    /\ user_goal = Goal6
    /\ response # NoResponse
    /\ response # ExceptionLeft
    /\ talked = << >>
    /\ Has(Store(session_state), "brand")
    /\ Store(session_state)["brand"] = Puma
    /\ Has(Store(session_state), "price_ceiling")
    /\ Store(session_state)["price_ceiling"] = 3000

(* ------------------------------------------------------------------ *)
(* C37: preferences learned in a clarification turn are persisted      *)
(* ------------------------------------------------------------------ *)
\* ask returns from an agent turn that short-circuited for clarification, and
\* every preference the plan stage inferred is in the store afterwards
ClarificationTurnPersists ==
    (pc = "done" /\ pc' = "idle" /\ plan.needs_clarification # << >>) =>
        \A k \in DOMAIN StagedUpdates :
            /\ Has(Store(session_state'), k)
            /\ Store(session_state')[k] = StagedUpdates[k]

\* a DATA_QUERY turn of a session whose store holds a brand does not ask for it
StoredBrandNotRequested ==
    (SqlTurn /\ Has(Store(session_state), "brand")
        /\ Store(session_state)["brand"] # << >>) => ~Needs("preferred brand")

\* C37: preferences inferred in a turn that short-circuits for clarification
\* are still persisted by ask, so in every later DATA_QUERY turn of the
\* session the prerequisite already learned is not requested again: after a
\* turn whose goal named a known brand but no budget, a later data-query goal
\* without any brand token does not list "preferred brand" in its
\* clarification needs.
C37_LearnedNotRequestedAgain ==
    [][ClarificationTurnPersists]_vars /\ []StoredBrandNotRequested

\* an earlier turn named Adidas and no budget and asked for clarification; the
\* DATA_QUERY turn for "cheap shoes" then asks for the budget only
C37_Witness ==
    /\ pc = "done"
    /\ asks >= 2
    /\ user_goal = Goal4
    /\ SqlTurn
    /\ Has(session_state, "agent_pending_clarification")
    /\ Has(Store(session_state), "brand")
    /\ Store(session_state)["brand"] = <<"A", "d", "i", "d", "a", "s">>
    /\ ~Has(Store(session_state), "price_ceiling")
    /\ ~GoalHasBrand
    /\ plan.needs_clarification = << "budget ceiling" >>

(* ------------------------------------------------------------------ *)
(* C38: the pending-clarification flag                                 *)
(* ------------------------------------------------------------------ *)
PendingClarification == Has(session_state, "agent_pending_clarification")

\* the call that returned last was an agent turn whose plan asked for
\* clarification
LastTurnAskedClarification ==
    /\ Has(final, "plan")
    /\ final.plan.needs_clarification # << >>

\* in and after a small-talk turn nothing of the agent has run
SmallTalkTurn == pc = "talk" \/ (pc = "idle" /\ asks > 0 /\ ~Has(final, "plan") /\ talked # << >>)

AgentNotRun ==
    /\ plan = NoPlan
    /\ trace = << >>
    /\ calls = << >>
    /\ tool_order = << >>
    /\ iter = 0
    /\ ~Has(final, "plan")

\* C38: after any sequence of ask calls that return normally, the session flag
\* agent_pending_clarification is present if and only if the most recent call
\* was an agent turn whose plan had non-empty needs_clarification; a small-talk
\* turn and an agent turn without clarification needs both clear it, and a
\* small-talk turn does not run the agent.
C38_PendingFlag ==
    /\ AskReturned => (PendingClarification <=> LastTurnAskedClarification)
    /\ pc = "talk" => ~PendingClarification
    /\ SmallTalkTurn => AgentNotRun

\* the third call of a session returned from small talk, with the flag cleared
\* and the store of the earlier agent turns in place
C38_Witness ==
    /\ AskReturned
    /\ asks >= 3
    /\ talked # << >>
    /\ Has(session_state, "agent_memory")
    /\ Has(Store(session_state), "brand")
    /\ ~Has(Store(session_state), "price_ceiling")
    /\ ~PendingClarification
    /\ AgentNotRun

\* an agent turn that asked for clarification returned and the flag is set
C38_FlagSet ==
    /\ AskReturned
    /\ asks >= 2
    /\ LastTurnAskedClarification
    /\ PendingClarification

(* ------------------------------------------------------------------ *)
(* C39: ingestion after a failed call                                  *)
(* ------------------------------------------------------------------ *)
\* the step in which ingest_faq_data returns without raising: the early
\* return of line 47 or the return after collection.add
ReturnsWithoutRaising ==
    /\ ing_pc \in {"list", "add"}
    /\ ing_pc' = "idle"
    /\ ing_failed' = ing_failed

\* when the call returns the collection holds one document per CSV row
RowsHeldOnReturn ==
    /\ Has(collections', COLLECTION_NAME)
    /\ collections'[COLLECTION_NAME] = DocsOf(csv')

\* C39: whenever ingest_faq_data returns without raising, the "faqs"
\* collection holds one document per CSV row, including when an earlier call
\* on the same client failed while reading the CSV after the collection had
\* been created (a failed ingestion can be repaired by calling
\* ingest_faq_data again).
C39_ReturnLeavesRows == [][ReturnsWithoutRaising => RowsHeldOnReturn]_vars

\* the same for sessions in which no call has failed
C39_WithoutFailure ==
    [][(ReturnsWithoutRaising /\ ~ing_failed) => RowsHeldOnReturn]_vars

\* a call made after a failed one has returned and the collection of a
\* two-row CSV is empty
C39_EmptyAfterRepair ==
    /\ ing_pc = "idle"
    /\ ingests >= 2
    /\ ing_failed
    /\ Len(csv) = 2
    /\ Has(collections, COLLECTION_NAME)
    /\ collections[COLLECTION_NAME] = << >>

====
